---- MODULE Spec2Model ----
(***************************************************************************)
(* Model of the conversation completion pipeline of TelegramGPT:           *)
(* ChatManager.handle_message / retry_last_message / __complete            *)
(* (src/chat.py), the streaming client GPTClient.complete (src/gemini.py), *)
(* the message rows of Database (src/db.py), the idle timer                 *)
(* (ChatManager.__add_timeout_task / __expire_current_conversation) and    *)
(* the lifecycle handlers ChatManager.resume / new_conversation.           *)
(*                                                                         *)
(* One chat context is modelled.  All coroutines run on one asyncio event  *)
(* loop, so a step of the model is the code between two awaits.            *)
(*                                                                         *)
(* Texts.  A text of the pipeline is always a prefix of the text streamed*)
(* by the backend in one completion, followed by a literal of the source.  *)
(* It is represented as [sid, n, tail]: the first n characters of stream   *)
(* number sid, followed by the literal string tail.  Lengths are the real  *)
(* ones (n + Len(tail)); two texts are the same string when they are the   *)
(* same record.                                                            *)
(***************************************************************************)
EXTENDS Integers, Sequences, FiniteSets, TLC

\* ---------------------------------------------------------------- bounds
\* inputs of a run: handler invocations (handle_message, retry_last_message)
\* and chunks yielded by the backend streams, all together
MaxEvents == 4
\* largest reading of the clock (unit: one throttle interval)
MaxClock == 4

\* ------------------------------------------------------- program constants
TELEGRAM_MAX_MESSAGE_LENGTH == 4096
\* DEFAULT_EDIT_THROTTLE_INTERVAL_SECONDS (0.5 s) is the unit of the clock
ThrottleInterval == 1
\* TELEGRAM_MAX_MESSAGE_LENGTH - 50
DisplayBuffer == 50
display_limit == TELEGRAM_MAX_MESSAGE_LENGTH - DisplayBuffer

truncation_suffix == "...\n\n(Type \"continue\" to view more.)"
GeneratingSuffix == "\n\nGenerating..."
GeneratingSuffixLong == "...\n\nGenerating..."
TimedOutText == "Generation timed out."
BusyText == "⏳ The bot is currently busy or has reached a usage limit. Please try again in a few moments."
ErrorText == "Sorry, an error occurred."
NoRetryText == "No message to retry"
NoConversationText == "No conversation to retry"
UserText == "Hi"
ResumeText == "Resuming conversation \"None\": "
StartedText == "Started a new conversation."
\* the notice of __expire_current_conversation for a conversation without title
ExpiredText == "\n\nThis conversation has expired and it was about \"None\". A new conversation has started."

\* lengths of the pieces of text the backend stream delivers (chunk.text)
ChunkLens == {1, TELEGRAM_MAX_MESSAGE_LENGTH}
\* the clock advances by at most this much while the next chunk is awaited
ClockSteps == 0..2

\* the three ways the backend stream fails (§ except clauses of __complete)
FailKinds == {"Timeout", "RateLimited", "Other"}

None == 0

\* ------------------------------------------------------------------ texts
Min(a, b) == IF a < b THEN a ELSE b
Max(a, b) == IF a > b THEN a ELSE b

Txt(sid, n, tail) == [sid |-> IF n = 0 THEN 0 ELSE sid, n |-> n, tail |-> tail]
EmptyText == Txt(0, 0, "")
Literal(s) == Txt(0, 0, s)
\* len(t)
TLen(t) == t.n + Len(t.tail)
\* t + s for a literal s
Concat(t, s) == Txt(t.sid, t.n, t.tail \o s)
\* the slice t[:k] of a streamed text (k >= 0)
Take(t, k) == Txt(t.sid, Min(t.n, k), "")

\* --------------------------------------------------------------- messages
\* models.Message: id, role, content, timestamp (+ replied_to_id of an
\* AssistantMessage).  The dataclass equality compares id, role, content and
\* timestamp.
Msg(id, role, content, replied, ts) ==
  [id |-> id, role |-> role, content |-> content, replied_to_id |-> replied, ts |-> ts]
UserMessage(id, content) == Msg(id, "user", content, None, 0)
SystemMessage(content) == Msg(0 - 1, "system", content, None, 0)
AssistantMessage(id, content, replied, ts) == Msg(id, "assistant", content, replied, ts)
MsgEq(a, b) == a.id = b.id /\ a.role = b.role /\ a.content = b.content /\ a.ts = b.ts
NoMsg == [id |-> None]

\* Conversation.last_message
last_message(conv) == IF Len(conv.messages) = 0 THEN NoMsg ELSE conv.messages[Len(conv.messages)]

VARIABLES
  pc,                       \* position of the running handler ("idle" when none)
  ops,                      \* handler invocations started so far
  events,                   \* inputs so far: handler invocations and chunks
  now,                      \* time.monotonic()
  nextId,                   \* next message id the channel assigns
  convs,                    \* the Conversation objects in memory
  current_conversation,     \* chat_state.current_conversation (object ref or None)
  timeout_task,             \* chat_state.timeout_task (task ref or None)
  tasks,                    \* state of every timer task created
  armed,                    \* per timer task: the conversation active when it was armed
  conversation_timeout,     \* ChatManager.__conversation_timeout (None when unset)
  dbMessages,               \* rows of table messages, in insertion order
  dbConversations,          \* rows of table conversations (index = id)
  dbActive,                 \* conversation_id of the chat's row of active_conversations
  notice,                   \* the last presenter call made outside __complete
  loc,                      \* locals of the running handler / __complete
  gen,                      \* the GPTClient.complete generator of the running completion
  hist,                     \* calls made by the running __complete invocation
  title_tasks,              \* the __set_title tasks created by GPTClient.complete
  modes,                    \* chat_data['modes']: the modes by id
  current_mode_id           \* chat_data['current_mode_id'] (None when unset)

vars == <<pc, ops, events, now, nextId, convs, current_conversation, timeout_task, tasks, armed,
          conversation_timeout, dbMessages, dbConversations, dbActive, notice,
          loc, gen, hist, title_tasks, modes, current_mode_id>>

\* ------------------------------------------------------- pure computations
\* src/chat.py:377  current_time - last_edit_time > self.__edit_throttle_interval
ThrottlePasses(current_time, last_edit_time) ==
  current_time - last_edit_time > ThrottleInterval

\* src/chat.py:384-388  the text of an intermediate update
DisplayText(accumulated_content) ==
  IF TLen(accumulated_content) > display_limit
    THEN Concat(Take(accumulated_content, display_limit), GeneratingSuffixLong)
    ELSE Concat(accumulated_content, GeneratingSuffix)

\* mutant of max_content_len: no room is reserved for the suffix
max_content_len_no_reserve == TELEGRAM_MAX_MESSAGE_LENGTH

\* src/chat.py:417  max(0, TELEGRAM_MAX_MESSAGE_LENGTH - len(truncation_suffix))
max_content_len == Max(0, TELEGRAM_MAX_MESSAGE_LENGTH - Len(truncation_suffix))

\* mutant of FinalText: a content of exactly the limit is truncated too
FinalTextOffByOne(accumulated_content) ==
  IF TLen(accumulated_content) >= TELEGRAM_MAX_MESSAGE_LENGTH
    THEN Concat(Take(accumulated_content, max_content_len), truncation_suffix)
    ELSE accumulated_content

\* src/chat.py:410-421  final_text_for_display_and_db
FinalText(accumulated_content) ==
  IF TLen(accumulated_content) > TELEGRAM_MAX_MESSAGE_LENGTH
    THEN Concat(Take(accumulated_content, max_content_len), truncation_suffix)
    ELSE accumulated_content

\* mutant of BannerText: the generic apology carries the error
BannerTextWithDetail(kind) ==
  CASE kind = "Timeout" -> Literal(TimedOutText)
    [] kind = "RateLimited" -> Literal(BusyText)
    [] OTHER -> Literal(ErrorText \o " " \o kind)

\* src/chat.py:439-469  text and reply_markup of the failure banner
BannerText(kind) ==
  CASE kind = "Timeout" -> Literal(TimedOutText)
    [] kind = "RateLimited" -> Literal(BusyText)
    [] OTHER -> Literal(ErrorText)
BannerMarkup(kind) ==
  CASE kind = "Timeout" -> "Retry"
    [] kind = "RateLimited" -> "none"
    [] OTHER -> "Retry"

\* src/chat.py:406  assistant_message not in conversation.messages
NotInMessages(m, messages) == \A i \in 1..Len(messages) : ~MsgEq(messages[i], m)

\* ------------------------------------------------------------ persistence
\* Database.add_message: a new row of table messages
db_add_message(rows, id, conv, role, content) ==
  Append(rows, [id |-> id, conversation_id |-> conv, role |-> role, content |-> content])
\* Database.update_message: the row of that id gets the new content; no row,
\* no change
db_update_message(rows, id, content) ==
  [i \in 1..Len(rows) |-> IF rows[i].id = id THEN [rows[i] EXCEPT !.content = content] ELSE rows[i]]

\* ----------------------------------------------------------------- timer
\* A timer task is "sleeping" in asyncio.sleep, "woken" when the sleep has
\* elapsed and the task's next step is scheduled but has not run, "done" once
\* it has run its expiry, "must_cancel" when it was cancelled after its sleep
\* had elapsed (the scheduled step then raises CancelledError inside the task),
\* "cancelled_late" when that step has run, and "cancelled" when it was
\* cancelled in its sleep.
PendingStates == {"sleeping", "woken"}
\* the cancel of __add_timeout_task / new_conversation: Task.cancel() on the
\* stored handle.  A sleeping task ends at once; a woken one at its next step.
CancelTimer(ts, handle) ==
  IF handle = None THEN ts
  ELSE [ts EXCEPT ![handle] = CASE @ = "sleeping" -> "cancelled"
                                [] @ = "woken" -> "must_cancel"
                                [] OTHER -> @]
\* mutant of add_timeout_task: the previous task is not cancelled
add_timeout_task_no_cancel(ts, handle) ==
  IF conversation_timeout = None
    THEN <<ts, None>>
    ELSE <<Append(ts, "sleeping"), Len(ts) + 1>>
\* mutant of add_timeout_task: no task is created
add_timeout_task_disarmed(ts, handle) == <<CancelTimer(ts, handle), None>>
\* ChatManager.__add_timeout_task: <<tasks, timeout_task>> after the call
add_timeout_task(ts, handle) ==
  IF conversation_timeout = None
    THEN <<CancelTimer(ts, handle), None>>
    ELSE <<Append(CancelTimer(ts, handle), "sleeping"), Len(ts) + 1>>

\* the conversation (its id) that is active when __add_timeout_task creates a
\* task, recorded per task
armed_for(as, active) ==
  IF conversation_timeout = None THEN as
  ELSE Append(as, IF active = None THEN None ELSE convs[active].id)

\* self.context.chat_id: the chat this ChatManager serves, and another chat
\* served by the same bot and database
ChatId == 1
OtherChatId == 2

\* ------------------------------------------------------------------ state
NoLoc == [op |-> "none"]
NoGen == [sid |-> 0]
NoHist == [conv |-> None]
NoNotice == [kind |-> "none"]

Init ==
  /\ pc = "idle"
  /\ ops = 0
  /\ events = 0
  /\ now = 0
  /\ nextId = 1
  /\ convs = << >>
  /\ current_conversation = None
  /\ timeout_task = None
  /\ tasks = << >>
  /\ armed = << >>
  /\ conversation_timeout \in {None, 1}
  /\ dbMessages = << >>
  /\ dbConversations = << >>
  /\ dbActive = None
  /\ notice = NoNotice
  /\ loc = NoLoc
  /\ gen = NoGen
  /\ hist = NoHist
  /\ title_tasks = << >>
  /\ modes = << >>
  /\ current_mode_id = None

\* ------------------------------------------------------------------ modes
\* src/chat.py:17-21  ConversationMode; `present` tells whether the object is
\* a value of chat_data['modes'] (its key is its position in `modes`)
ModeTitle == "M"
ModePrompts == {"P1", "P2"}
ConversationMode(title, prompt) == [title |-> title, prompt |-> prompt, present |-> TRUE]
\* src/chat.py:59  self.modes.get(id)
modes_get(id) ==
  IF id \in DOMAIN modes /\ modes[id].present THEN id ELSE None
\* mutant of current_mode: the id is not looked up among the modes
current_mode_unchecked == current_mode_id
\* src/chat.py:54-59  ChatContext.current_mode (the mode's key, or None)
current_mode ==
  IF current_mode_id = None THEN None ELSE modes_get(current_mode_id)
\* mutant of system_prompt: no system message is built
system_prompt_never == NoMsg
\* src/chat.py:356-358  system_prompt of __complete (NoMsg: None)
system_prompt ==
  IF current_mode # None THEN SystemMessage(Literal(modes[current_mode].prompt)) ELSE NoMsg

\* --------------------------------------------------------- texts of notices
\* str(conversation.title) inside an f-string
TitleText(title) == IF title = None THEN "None" ELSE "T" \o ToString(title)
\* src/chat.py:527  the notice appended by __expire_current_conversation
ExpiredTextOf(title) ==
  "\n\nThis conversation has expired and it was about \"" \o TitleText(title)
    \o "\". A new conversation has started."
\* src/chat.py:196-198  text of resume
ResumeTextOf(title) ==
  "Resuming conversation \"" \o TitleText(title) \o "\""
    \o (IF current_mode # None THEN " in mode \"" \o modes[current_mode].title \o "\"" ELSE "")
    \o ": "
\* src/chat.py:104-108  text of new_conversation
StartedTextOf(mode) ==
  IF mode # None
    THEN "Started a new conversation in mode \"" \o modes[mode].title \o "\"."
    ELSE StartedText

\* ------------------------------------------------------------ __complete
\* src/chat.py:348-360 and src/gemini.py:57-66: the locals of __complete, the
\* generator gpt.complete(conversation, conversation.messages[-1],
\* sent_message_id, system_prompt) and the record of this invocation's calls
CompleteLoc(c, sent) ==
  [op |-> "complete", conversation |-> c, sent_message_id |-> sent,
   assistant_message |-> NoMsg, accumulated_content |-> EmptyText,
   last_edit_time |-> 0, initial_db_add_done |-> FALSE,
   current_time |-> 0, display_text |-> EmptyText,
   final_text |-> EmptyText, exc |-> "none"]
\* mutant of CompleteGen: the first message of the transcript is the trigger
CompleteGenFirstMessage(messages) ==
  [sid |-> ops + 1, user_message |-> messages[1],
   assistant_message |-> None, content |-> EmptyText, chunks |-> 0,
   system_message |-> system_prompt,
   request |-> (IF system_prompt # NoMsg THEN <<system_prompt>> ELSE << >>) \o messages]
CompleteGen(messages) ==
  [sid |-> ops + 1, user_message |-> messages[Len(messages)],
   assistant_message |-> None, content |-> EmptyText, chunks |-> 0,
   system_message |-> system_prompt,
   request |-> (IF system_prompt # NoMsg THEN <<system_prompt>> ELSE << >>) \o messages]
CompleteHist(c, sent, messages, rows) ==
  [conv |-> c, slot |-> sent, trigger |-> messages[Len(messages)],
   start |-> messages, db0 |-> rows, chunks |-> << >>, failure |-> "none",
   adds |-> << >>, updates |-> << >>, edits |-> << >>, rearms |-> 0,
   outcome |-> "running", system |-> system_prompt]

\* src/chat.py:376-388: the throttle decision taken after a chunk, the clock
\* reading t
AfterChunk(l, t) ==
  IF ThrottlePasses(t, l.last_edit_time)
    THEN [l EXCEPT !.current_time = t,
                   !.assistant_message.content = l.accumulated_content,
                   !.display_text = DisplayText(l.accumulated_content)]
    ELSE [l EXCEPT !.current_time = t]
AfterChunkPc(l, t) == IF ThrottlePasses(t, l.last_edit_time) THEN "edit" ELSE "stream"

\* mutant of Finish: only a successful completion installs the conversation
\* and re-arms the timer
FinishOnSuccessOnly(h, outcome) ==
  /\ current_conversation' = IF outcome = "success" THEN loc.conversation
                             ELSE current_conversation
  /\ tasks' = IF outcome = "success" THEN add_timeout_task(tasks, timeout_task)[1]
              ELSE tasks
  /\ armed' = IF outcome = "success" THEN armed_for(armed, loc.conversation) ELSE armed
  /\ timeout_task' = IF outcome = "success" THEN add_timeout_task(tasks, timeout_task)[2]
                     ELSE timeout_task
  /\ hist' = [h EXCEPT !.rearms = IF outcome = "success" THEN @ + 1 ELSE @,
                       !.outcome = outcome]
  /\ pc' = "idle"
  /\ loc' = NoLoc
  /\ gen' = NoGen

\* src/chat.py:471-473: the end of every __complete
Finish(h, outcome) ==
  /\ current_conversation' = loc.conversation
  /\ tasks' = add_timeout_task(tasks, timeout_task)[1]
  /\ armed' = armed_for(armed, loc.conversation)
  /\ timeout_task' = add_timeout_task(tasks, timeout_task)[2]
  /\ hist' = [h EXCEPT !.rearms = @ + 1, !.outcome = outcome]
  /\ pc' = "idle"
  /\ loc' = NoLoc
  /\ gen' = NoGen

\* the backend stream delivers a piece of text of length n, d clock units
\* after the previous one: src/gemini.py:68-74, then src/chat.py:360-364
StreamChunk(d, n) ==
  /\ pc = "stream"
  /\ events < MaxEvents
  /\ events' = events + 1
  /\ now + d <= MaxClock
  /\ now' = now + d
  /\ LET c == loc.conversation
         content == Txt(gen.sid, gen.content.n + n, "")
         first == gen.assistant_message = None
         idx == IF first THEN Len(convs[c].messages) + 1 ELSE gen.assistant_message
         withMsg == IF first
                      THEN Append(convs[c].messages,
                             AssistantMessage(loc.sent_message_id, EmptyText, gen.user_message.id, 0))
                      ELSE convs[c].messages
         l1 == [loc EXCEPT !.accumulated_content = content]
     IN /\ convs' = [convs EXCEPT ![c].messages = [withMsg EXCEPT ![idx].content = content]]
        /\ gen' = [gen EXCEPT !.assistant_message = idx, !.content = content, !.chunks = @ + 1]
        /\ hist' = [hist EXCEPT !.chunks = Append(@, content)]
        /\ IF loc.assistant_message = NoMsg
             THEN /\ \E ts \in {0, 1} :
                       loc' = [l1 EXCEPT !.assistant_message =
                                 AssistantMessage(loc.sent_message_id, EmptyText,
                                                  gen.user_message.id, ts)]
                  /\ pc' = "db_add"
             ELSE /\ loc' = AfterChunk(l1, now')
                  /\ pc' = AfterChunkPc(l1, now')
  /\ UNCHANGED <<ops, nextId, current_conversation, timeout_task, tasks, armed,
                 conversation_timeout, title_tasks, modes, current_mode_id, dbMessages, dbConversations, dbActive, notice>>

\* mutant of PlaceholderContent: the placeholder is written with the content
\* accumulated so far
PlaceholderContentAccumulated(l) == l.accumulated_content

\* src/chat.py:371: the content of the placeholder row
PlaceholderContent(l) == EmptyText

\* mutant of DbAdd: the placeholder row is not written before the stream
\* goes on
DbAddDeferred ==
  /\ pc = "db_add"
  /\ LET l1 == [loc EXCEPT !.initial_db_add_done = TRUE]
     IN /\ loc' = AfterChunk(l1, now)
        /\ pc' = AfterChunkPc(l1, now)
  /\ UNCHANGED <<events, ops, now, nextId, convs, current_conversation, timeout_task, tasks, armed,
                 conversation_timeout, title_tasks, modes, current_mode_id, dbMessages, dbConversations, dbActive, notice, gen, hist>>

\* src/chat.py:370-373, then the throttle decision: the placeholder row
DbAdd ==
  /\ pc = "db_add"
  /\ LET m == loc.assistant_message
         l1 == [loc EXCEPT !.initial_db_add_done = TRUE]
     IN /\ dbMessages' = db_add_message(dbMessages, m.id, convs[loc.conversation].id,
                                        m.role, EmptyText)
        /\ hist' = [hist EXCEPT !.adds = Append(@,
                       [id |-> m.id, conversation_id |-> convs[loc.conversation].id,
                        role |-> m.role, content |-> PlaceholderContent(loc)])]
        /\ loc' = AfterChunk(l1, now)
        /\ pc' = AfterChunkPc(l1, now)
  /\ UNCHANGED <<events, ops, now, nextId, convs, current_conversation, timeout_task, tasks, armed,
                 conversation_timeout, title_tasks, modes, current_mode_id, dbConversations, dbActive, notice, gen>>

\* mutant of Edit: a failed update is not caught and ends the stream as any
\* other exception does
EditAborts(ok) ==
  /\ pc = "edit"
  /\ hist' = [hist EXCEPT !.edits = Append(@,
                 [slot |-> loc.sent_message_id, text |-> loc.display_text,
                  markup |-> "none", kind |-> "intermediate", ok |-> ok,
                  at |-> loc.current_time])]
  /\ loc' = IF ok THEN [loc EXCEPT !.last_edit_time = loc.current_time]
                  ELSE [loc EXCEPT !.exc = "Other"]
  /\ pc' = IF ok THEN "stream" ELSE "banner"
  /\ UNCHANGED <<events, ops, now, nextId, convs, current_conversation, timeout_task, tasks, armed,
                 conversation_timeout, title_tasks, modes, current_mode_id, dbMessages, dbConversations, dbActive, notice, gen>>

\* mutant of Edit: a failed update leaves last_edit_time as it was
EditNoStampOnError(ok) ==
  /\ pc = "edit"
  /\ hist' = [hist EXCEPT !.edits = Append(@,
                 [slot |-> loc.sent_message_id, text |-> loc.display_text,
                  markup |-> "none", kind |-> "intermediate", ok |-> ok,
                  at |-> loc.current_time])]
  /\ loc' = IF ok THEN [loc EXCEPT !.last_edit_time = loc.current_time] ELSE loc
  /\ pc' = "stream"
  /\ UNCHANGED <<events, ops, now, nextId, convs, current_conversation, timeout_task, tasks, armed,
                 conversation_timeout, title_tasks, modes, current_mode_id, dbMessages, dbConversations, dbActive, notice, gen>>

\* src/chat.py:389-398: an intermediate update; it succeeds or raises
Edit(ok) ==
  /\ pc = "edit"
  /\ hist' = [hist EXCEPT !.edits = Append(@,
                 [slot |-> loc.sent_message_id, text |-> loc.display_text,
                  markup |-> "none", kind |-> "intermediate", ok |-> ok,
                  at |-> loc.current_time])]
  /\ loc' = [loc EXCEPT !.last_edit_time = loc.current_time]
  /\ pc' = "stream"
  /\ UNCHANGED <<events, ops, now, nextId, convs, current_conversation, timeout_task, tasks, armed,
                 conversation_timeout, title_tasks, modes, current_mode_id, dbMessages, dbConversations, dbActive, notice, gen>>

\* src/gemini.py:90  a __set_title task for conversation object c, created
\* and not yet run.  The fields after `title` record what the task has done:
\* whether it called __request, how many messages the conversation had when it
\* assigned conversation.title (0: no assignment), whether it called
\* db.update_conversation and whether that call changed the row.
set_title_task(c) ==
  [conversation |-> c, pc |-> "created", messages_for_title |-> << >>, title |-> None,
   outcome |-> "none", requested |-> FALSE, assigned_len |-> 0, db_called |-> FALSE,
   wrote |-> FALSE]
\* src/gemini.py:84-85  the title task is created for a conversation without
\* title that has fewer than 3 messages (the stream has yielded a chunk)
spawn_title(c) ==
  IF convs[c].title = None /\ Len(convs[c].messages) < 3
    THEN Append(title_tasks, set_title_task(c))
    ELSE title_tasks

\* mutant of StreamEnd: the assistant message gets the truncated text
StreamEndTruncatesMessage ==
  /\ pc = "stream"
  /\ IF loc.assistant_message # NoMsg
       THEN LET c == loc.conversation
                m == [loc.assistant_message EXCEPT !.content = FinalText(loc.accumulated_content)]
            IN /\ title_tasks' = spawn_title(c)
               /\ convs' = [convs EXCEPT ![c].messages =
                              IF NotInMessages(m, @) THEN Append(@, m) ELSE @]
               /\ loc' = [loc EXCEPT !.assistant_message = m,
                                     !.final_text = FinalText(loc.accumulated_content)]
               /\ pc' = "db_update"
               /\ UNCHANGED <<current_conversation, timeout_task, tasks, armed, hist, gen>>
       ELSE /\ Finish(hist, "empty")
            /\ UNCHANGED <<convs, title_tasks>>
  /\ UNCHANGED <<events, ops, now, nextId, conversation_timeout, modes, current_mode_id, dbMessages, dbConversations, dbActive, notice>>

\* the stream is exhausted: src/gemini.py:82-87, then src/chat.py:402-421
StreamEnd ==
  /\ pc = "stream"
  /\ IF loc.assistant_message # NoMsg
       THEN LET c == loc.conversation
                m == [loc.assistant_message EXCEPT !.content = loc.accumulated_content]
            IN /\ title_tasks' = spawn_title(c)
               /\ convs' = [convs EXCEPT ![c].messages =
                              IF NotInMessages(m, @) THEN Append(@, m) ELSE @]
               /\ loc' = [loc EXCEPT !.assistant_message = m,
                                     !.final_text = FinalText(loc.accumulated_content)]
               /\ pc' = "db_update"
               /\ UNCHANGED <<current_conversation, timeout_task, tasks, armed, hist, gen>>
       ELSE /\ Finish(hist, "empty")
            /\ UNCHANGED <<convs, title_tasks>>
  /\ UNCHANGED <<events, ops, now, nextId, conversation_timeout, modes, current_mode_id, dbMessages, dbConversations, dbActive, notice>>

\* mutant of StreamFail: the client has put its assistant message into the
\* transcript before the stream delivers anything
StreamFailAppends(kind) ==
  /\ pc = "stream"
  /\ loc' = [loc EXCEPT !.exc = kind]
  /\ hist' = [hist EXCEPT !.failure = kind]
  /\ pc' = "banner"
  /\ convs' = [convs EXCEPT ![loc.conversation].messages =
                 IF gen.assistant_message = None
                   THEN Append(@, AssistantMessage(loc.sent_message_id, EmptyText,
                                                   gen.user_message.id, 0))
                   ELSE @]
  /\ UNCHANGED <<events, ops, now, nextId, current_conversation, timeout_task, tasks, armed,
                 conversation_timeout, title_tasks, modes, current_mode_id, dbMessages, dbConversations, dbActive, notice, gen>>

\* mutant of StreamFail: the placeholder row is rolled back when the stream
\* fails
NotSlotRow(r) == r.id # loc.sent_message_id
StreamFailRollback(kind) ==
  /\ pc = "stream"
  /\ loc' = [loc EXCEPT !.exc = kind]
  /\ hist' = [hist EXCEPT !.failure = kind]
  /\ pc' = "banner"
  /\ dbMessages' = SelectSeq(dbMessages, NotSlotRow)
  /\ UNCHANGED <<events, ops, now, nextId, convs, current_conversation, timeout_task, tasks, armed,
                 conversation_timeout, title_tasks, modes, current_mode_id, dbConversations, dbActive, notice, gen>>

\* the stream raises TimeoutError, RateLimitException or another exception:
\* src/gemini.py:75-80, src/chat.py:439, 447, 461
StreamFail(kind) ==
  /\ pc = "stream"
  /\ loc' = [loc EXCEPT !.exc = kind]
  /\ hist' = [hist EXCEPT !.failure = kind]
  /\ pc' = "banner"
  /\ UNCHANGED <<events, ops, now, nextId, convs, current_conversation, timeout_task, tasks, armed,
                 conversation_timeout, title_tasks, modes, current_mode_id, dbMessages, dbConversations, dbActive, notice, gen>>

\* mutant of DbUpdate: __complete goes on once the title tasks of its
\* conversation have ended
DbUpdateAwaitsTitle ==
  /\ pc = "db_update"
  /\ \A i \in DOMAIN title_tasks :
       title_tasks[i].conversation = loc.conversation => title_tasks[i].pc = "done"
  /\ dbMessages' = db_update_message(dbMessages, loc.assistant_message.id, loc.final_text)
  /\ hist' = [hist EXCEPT !.updates = Append(@,
                 [id |-> loc.assistant_message.id, content |-> loc.final_text])]
  /\ pc' = "final_edit"
  /\ UNCHANGED <<events, ops, now, nextId, convs, current_conversation, timeout_task, tasks, armed,
                 conversation_timeout, title_tasks, modes, current_mode_id, dbConversations, dbActive, notice, loc, gen>>

\* src/chat.py:424: the final content is written to the row
DbUpdate ==
  /\ pc = "db_update"
  /\ dbMessages' = db_update_message(dbMessages, loc.assistant_message.id, loc.final_text)
  /\ hist' = [hist EXCEPT !.updates = Append(@,
                 [id |-> loc.assistant_message.id, content |-> loc.final_text])]
  /\ pc' = "final_edit"
  /\ UNCHANGED <<events, ops, now, nextId, convs, current_conversation, timeout_task, tasks, armed,
                 conversation_timeout, title_tasks, modes, current_mode_id, dbConversations, dbActive, notice, loc, gen>>

\* mutant of FinalEdit: a failed final update takes the persisted content back
FinalEditRollsBack(ok) ==
  /\ pc = "final_edit"
  /\ Finish([hist EXCEPT !.edits = Append(@,
                [slot |-> loc.sent_message_id, text |-> loc.final_text,
                 markup |-> "none", kind |-> "final", ok |-> ok, at |-> now])],
            "success")
  /\ dbMessages' = IF ok THEN dbMessages
                   ELSE db_update_message(dbMessages, loc.assistant_message.id, EmptyText)
  /\ UNCHANGED <<events, ops, now, nextId, convs, conversation_timeout, title_tasks, modes, current_mode_id, dbConversations, dbActive, notice>>

\* src/chat.py:427-437, 471-473: the final update, then the end of __complete
FinalEdit(ok) ==
  /\ pc = "final_edit"
  /\ Finish([hist EXCEPT !.edits = Append(@,
                [slot |-> loc.sent_message_id, text |-> loc.final_text,
                 markup |-> "none", kind |-> "final", ok |-> ok, at |-> now])],
            "success")
  /\ UNCHANGED <<events, ops, now, nextId, convs, conversation_timeout, title_tasks, modes, current_mode_id, dbMessages, dbConversations, dbActive, notice>>

\* src/chat.py:439-473: the failure banner, then the end of __complete
Banner(ok) ==
  /\ pc = "banner"
  /\ Finish([hist EXCEPT !.edits = Append(@,
                [slot |-> loc.sent_message_id, text |-> BannerText(loc.exc),
                 markup |-> BannerMarkup(loc.exc), kind |-> "banner", ok |-> ok,
                 at |-> now])],
            loc.exc)
  /\ UNCHANGED <<events, ops, now, nextId, convs, conversation_timeout, title_tasks, modes, current_mode_id, dbMessages, dbConversations, dbActive, notice>>

\* ---------------------------------------------------------------- handlers
\* src/chat.py:126-129: handle_message answers "Generating response..."; the
\* channel has numbered the user's message and numbers the answer
HandleMessage(d) ==
  /\ pc = "idle"
  /\ events < MaxEvents
  /\ events' = events + 1
  /\ now + d <= MaxClock
  /\ now' = now + d
  /\ loc' = [op |-> "handle_message", user_message_id |-> nextId,
             sent_message_id |-> nextId + 1]
  /\ nextId' = nextId + 2
  /\ pc' = "hm_sent"
  /\ hist' = NoHist
  /\ UNCHANGED <<ops, convs, current_conversation, timeout_task, tasks, armed,
                 conversation_timeout, title_tasks, modes, current_mode_id, dbMessages, dbConversations, dbActive, notice, gen>>

\* src/chat.py:129-138 (and 117-124): the user message is appended and
\* persisted, a conversation is created when none is active, and __complete
\* opens the stream
HandleMessagePersist ==
  /\ pc = "hm_sent"
  /\ LET user_message == UserMessage(loc.user_message_id, Literal(UserText))
     IN IF current_conversation # None
          THEN LET c == current_conversation
                   messages == Append(convs[c].messages, user_message)
               IN /\ convs' = [convs EXCEPT ![c].messages = messages]
                  /\ dbMessages' = db_add_message(dbMessages, user_message.id, convs[c].id,
                                                  user_message.role, user_message.content)
                  /\ UNCHANGED <<dbConversations, dbActive>>
                  /\ loc' = CompleteLoc(c, loc.sent_message_id)
                  /\ gen' = CompleteGen(messages)
                  /\ hist' = CompleteHist(c, loc.sent_message_id, messages, dbMessages')
          ELSE LET id == Len(dbConversations) + 1
                   c == Len(convs) + 1
                   messages == <<user_message>>
               IN /\ dbConversations' = Append(dbConversations, [id |-> id, chat_id |-> ChatId, title |-> None])
                  /\ dbActive' = id
                  /\ dbMessages' = db_add_message(dbMessages, user_message.id, id,
                                                  user_message.role, user_message.content)
                  /\ convs' = Append(convs, [id |-> id, title |-> None, messages |-> messages])
                  /\ loc' = CompleteLoc(c, loc.sent_message_id)
                  /\ gen' = CompleteGen(messages)
                  /\ hist' = CompleteHist(c, loc.sent_message_id, messages, dbMessages')
  /\ ops' = ops + 1
  /\ pc' = "stream"
  /\ UNCHANGED <<events, now, nextId, current_conversation, timeout_task, tasks, armed,
                 conversation_timeout, title_tasks, modes, current_mode_id, notice>>

\* the call of handle_message that can raise: db.create_conversation or
\* db.add_message
PersistCalls == {"create_conversation", "add_message"}

\* mutant of HandleMessagePersistFails: the exception is swallowed and
\* __complete opens the stream
HandleMessagePersistFailsGoesOn(call) ==
  /\ pc = "hm_sent"
  /\ current_conversation # None
  /\ call = "add_message"
  /\ LET user_message == UserMessage(loc.user_message_id, Literal(UserText))
         c == current_conversation
         messages == Append(convs[c].messages, user_message)
     IN /\ convs' = [convs EXCEPT ![c].messages = messages]
        /\ loc' = CompleteLoc(c, loc.sent_message_id)
        /\ gen' = CompleteGen(messages)
        /\ hist' = CompleteHist(c, loc.sent_message_id, messages, dbMessages)
  /\ ops' = ops + 1
  /\ pc' = "stream"
  /\ UNCHANGED <<events, now, nextId, current_conversation, timeout_task, tasks, armed,
                 conversation_timeout, title_tasks, modes, current_mode_id, dbMessages,
                 dbConversations, dbActive, notice>>

\* src/chat.py:129-136 (and 117-121) when the database raises: with an active
\* conversation the user message is already appended in memory when
\* add_message raises; without one, create_conversation raises, or it has
\* stored the conversation (and the chat's pointer) and add_message raises.
\* The exception ends handle_message before __complete is called.
HandleMessagePersistFails(call) ==
  /\ pc = "hm_sent"
  /\ LET user_message == UserMessage(loc.user_message_id, Literal(UserText))
     IN IF current_conversation # None
          THEN /\ call = "add_message"
               /\ convs' = [convs EXCEPT ![current_conversation].messages =
                                            Append(@, user_message)]
               /\ UNCHANGED <<dbConversations, dbActive>>
          ELSE /\ UNCHANGED convs
               /\ IF call = "create_conversation"
                    THEN UNCHANGED <<dbConversations, dbActive>>
                    ELSE /\ dbConversations' =
                              Append(dbConversations,
                                     [id |-> Len(dbConversations) + 1, chat_id |-> ChatId,
                                      title |-> None])
                         /\ dbActive' = Len(dbConversations) + 1
  /\ pc' = "idle"
  /\ loc' = NoLoc
  /\ UNCHANGED <<events, ops, now, nextId, current_conversation, timeout_task, tasks, armed,
                 conversation_timeout, title_tasks, modes, current_mode_id, dbMessages,
                 notice, gen, hist>>

\* src/chat.py:171-178: retry_last_message without an active conversation
\* answers "No conversation to retry"; otherwise "Regenerating response...".
\* loc.prior keeps the record of the __complete invocation that ran before.
RetryLastMessage(d) ==
  /\ pc = "idle"
  /\ events < MaxEvents
  /\ events' = events + 1
  /\ now + d <= MaxClock
  /\ now' = now + d
  /\ nextId' = nextId + 1
  /\ hist' = NoHist
  /\ IF current_conversation = None
       THEN /\ notice' = [kind |-> "no_conversation", slot |-> nextId,
                       text |-> Literal(NoConversationText)]
            /\ ops' = ops + 1
            /\ UNCHANGED <<pc, loc>>
       ELSE /\ loc' = [op |-> "retry", conversation |-> current_conversation,
                       sent_message_id |-> nextId, prior |-> hist]
            /\ pc' = "retry_sent"
            /\ UNCHANGED <<ops, notice>>
  /\ UNCHANGED <<convs, current_conversation, timeout_task, tasks, armed,
                 conversation_timeout, title_tasks, modes, current_mode_id, dbMessages, dbConversations, dbActive, gen>>

\* mutant of RetryComplete: the role of the last message is not looked at
RetryCompleteUnchecked ==
  /\ pc = "retry_sent"
  /\ LET c == loc.conversation
         last == last_message(convs[c])
         messages == IF last # NoMsg /\ last.role = "assistant"
                       THEN SubSeq(convs[c].messages, 1, Len(convs[c].messages) - 1)
                       ELSE convs[c].messages
     IN /\ convs' = [convs EXCEPT ![c].messages = messages]
        /\ IF Len(messages) = 0
             THEN /\ notice' = [kind |-> "no_message", slot |-> loc.sent_message_id,
                             text |-> Literal(NoRetryText)]
                  /\ pc' = "idle"
                  /\ loc' = NoLoc
                  /\ UNCHANGED <<gen, hist>>
             ELSE /\ loc' = CompleteLoc(c, loc.sent_message_id)
                  /\ gen' = CompleteGen(messages)
                  /\ hist' = CompleteHist(c, loc.sent_message_id, messages, dbMessages)
                  /\ pc' = "stream"
                  /\ UNCHANGED notice
  /\ ops' = ops + 1
  /\ UNCHANGED <<events, now, nextId, current_conversation, timeout_task, tasks, armed,
                 conversation_timeout, title_tasks, modes, current_mode_id, dbMessages, dbConversations, dbActive>>

\* mutant of RetryComplete: the popped reply is deleted from the database too
RetryCompleteDeletesRow ==
  /\ pc = "retry_sent"
  /\ LET c == loc.conversation
         last == last_message(convs[c])
         popped == last # NoMsg /\ last.role = "assistant"
         messages == IF popped
                       THEN SubSeq(convs[c].messages, 1, Len(convs[c].messages) - 1)
                       ELSE convs[c].messages
         rows == IF popped THEN SelectSeq(dbMessages, LAMBDA r : r.id # last.id)
                 ELSE dbMessages
         last2 == IF Len(messages) = 0 THEN NoMsg ELSE messages[Len(messages)]
     IN /\ convs' = [convs EXCEPT ![c].messages = messages]
        /\ dbMessages' = rows
        /\ IF last2 = NoMsg \/ last2.role # "user"
             THEN /\ notice' = [kind |-> "no_message", slot |-> loc.sent_message_id,
                             text |-> Literal(NoRetryText)]
                  /\ pc' = "idle"
                  /\ loc' = NoLoc
                  /\ UNCHANGED <<gen, hist>>
             ELSE /\ loc' = CompleteLoc(c, loc.sent_message_id)
                  /\ gen' = CompleteGen(messages)
                  /\ hist' = CompleteHist(c, loc.sent_message_id, messages, rows)
                  /\ pc' = "stream"
                  /\ UNCHANGED notice
  /\ ops' = ops + 1
  /\ UNCHANGED <<events, now, nextId, current_conversation, timeout_task, tasks, armed,
                 conversation_timeout, title_tasks, modes, current_mode_id, dbConversations, dbActive>>

\* src/chat.py:180-187: a trailing assistant message is popped; then "No
\* message to retry", or __complete opens the stream
RetryComplete ==
  /\ pc = "retry_sent"
  /\ LET c == loc.conversation
         last == last_message(convs[c])
         messages == IF last # NoMsg /\ last.role = "assistant"
                       THEN SubSeq(convs[c].messages, 1, Len(convs[c].messages) - 1)
                       ELSE convs[c].messages
         last2 == IF Len(messages) = 0 THEN NoMsg ELSE messages[Len(messages)]
     IN /\ convs' = [convs EXCEPT ![c].messages = messages]
        /\ IF last2 = NoMsg \/ last2.role # "user"
             THEN /\ notice' = [kind |-> "no_message", slot |-> loc.sent_message_id,
                             text |-> Literal(NoRetryText)]
                  /\ pc' = "idle"
                  /\ loc' = NoLoc
                  /\ UNCHANGED <<gen, hist>>
             ELSE /\ loc' = CompleteLoc(c, loc.sent_message_id)
                  /\ gen' = CompleteGen(messages)
                  /\ hist' = CompleteHist(c, loc.sent_message_id, messages, dbMessages)
                  /\ pc' = "stream"
                  /\ UNCHANGED notice
  /\ ops' = ops + 1
  /\ UNCHANGED <<events, now, nextId, current_conversation, timeout_task, tasks, armed,
                 conversation_timeout, title_tasks, modes, current_mode_id, dbMessages, dbConversations, dbActive>>

\* ------------------------------------------------------------ idle timer
\* mutant of ExpireNotice: the expiry notice is sent whatever the last message
ExpireNoticeAlways(c, task) ==
  IF c = None \/ last_message(convs[c]) = NoMsg THEN notice
  ELSE [kind |-> "expired", slot |-> last_message(convs[c]).id,
        text |-> Concat(last_message(convs[c]).content, ExpiredTextOf(convs[c].title)),
        resume |-> convs[c].id, task |-> task]

\* src/chat.py:514-531  __expire_current_conversation, called by timer task
\* `task` (None: called by new_conversation) while conversation object c is
\* the active one: the presenter call it makes, if any
ExpireNotice(c, task) ==
  IF c = None THEN notice
  ELSE LET last == last_message(convs[c])
       IN IF last = NoMsg \/ last.role # "assistant"
            THEN notice
            ELSE [kind |-> "expired", slot |-> last.id,
                  text |-> Concat(last.content, ExpiredTextOf(convs[c].title)),
                  resume |-> convs[c].id, task |-> task]

\* the sleep of timer task t elapses: the loop schedules the task's next step
TimerWake(t) ==
  /\ tasks[t] = "sleeping"
  /\ tasks' = [tasks EXCEPT ![t] = "woken"]
  /\ UNCHANGED <<armed, events, pc, ops, now, nextId, convs, current_conversation, timeout_task,
                 conversation_timeout, title_tasks, modes, current_mode_id, dbMessages, dbConversations, dbActive, notice,
                 loc, gen, hist>>

\* mutant of TimerCancelled: the cancellation is lost and the task runs on
TimerCancelledRunsOn(t) ==
  /\ tasks[t] = "must_cancel"
  /\ tasks' = [tasks EXCEPT ![t] = "done"]
  /\ current_conversation' = None
  /\ notice' = ExpireNotice(current_conversation, t)
  /\ UNCHANGED <<armed, events, pc, ops, now, nextId, convs, timeout_task,
                 conversation_timeout, title_tasks, modes, current_mode_id, dbMessages, dbConversations, dbActive,
                 loc, gen, hist>>

\* the scheduled step of a task cancelled after its sleep elapsed: the await
\* of src/chat.py:507 raises CancelledError and the task ends
TimerCancelled(t) ==
  /\ tasks[t] = "must_cancel"
  /\ tasks' = [tasks EXCEPT ![t] = "cancelled_late"]
  /\ UNCHANGED <<armed, events, pc, ops, now, nextId, convs, current_conversation, timeout_task,
                 conversation_timeout, title_tasks, modes, current_mode_id, dbMessages, dbConversations, dbActive, notice,
                 loc, gen, hist>>

\* mutant of TimerFire: a task that was cancelled while sleeping fires too
TimerFireIgnoresCancel(t) ==
  /\ tasks[t] \in PendingStates \cup {"cancelled"}
  /\ tasks' = [tasks EXCEPT ![t] = "done"]
  /\ timeout_task' = None
  /\ current_conversation' = None
  /\ notice' = ExpireNotice(current_conversation, t)
  /\ UNCHANGED <<armed, events, pc, ops, now, nextId, convs, conversation_timeout, title_tasks, modes, current_mode_id, dbMessages,
                 dbConversations, dbActive, loc, gen, hist>>

\* mutant of TimerFire: the expiry notice is written into the last message of
\* the expired conversation
TimerFireStoresNotice(t) ==
  /\ tasks[t] \in PendingStates
  /\ tasks' = [tasks EXCEPT ![t] = "done"]
  /\ timeout_task' = None
  /\ current_conversation' = None
  /\ notice' = ExpireNotice(current_conversation, t)
  /\ convs' = IF ExpireNotice(current_conversation, t) = notice THEN convs
              ELSE [convs EXCEPT ![current_conversation].messages =
                      [@ EXCEPT ![Len(@)].content = ExpireNotice(current_conversation, t).text]]
  /\ UNCHANGED <<armed, events, pc, ops, now, nextId, conversation_timeout, title_tasks, modes, current_mode_id, dbMessages,
                 dbConversations, dbActive, loc, gen, hist>>

\* src/chat.py:506-510 and 514-531: timer task t runs on after its sleep; it
\* clears the handle and expires the active conversation
TimerFire(t) ==
  /\ tasks[t] \in PendingStates
  /\ tasks' = [tasks EXCEPT ![t] = "done"]
  /\ timeout_task' = None
  /\ current_conversation' = None
  /\ notice' = ExpireNotice(current_conversation, t)
  /\ UNCHANGED <<armed, events, pc, ops, now, nextId, convs, conversation_timeout, title_tasks, modes, current_mode_id, dbMessages,
                 dbConversations, dbActive, loc, gen, hist>>

\* ------------------------------------------------------- resume, start new
\* Message.from_db_message / Conversation.from_db_model: the rows of a
\* conversation as plain Message objects
IsRowOf(cid, r) == r.conversation_id = cid
RECURSIVE RowsOf(_, _)
RowsOf(rows, cid) ==
  IF rows = << >> THEN << >>
  ELSE LET rest == RowsOf(Tail(rows), cid)
       IN IF IsRowOf(cid, Head(rows)) THEN <<Head(rows)>> \o rest ELSE rest
from_db_message(r) == Msg(r.id, r.role, r.content, None, 0)
from_db_model(cid) ==
  LET rows == RowsOf(dbMessages, cid)
  IN [id |-> cid, title |-> dbConversations[cid].title,
      messages |-> [i \in 1..Len(rows) |-> from_db_message(rows[i])]]

\* Database.update_active_conversation: the chat's row, when there is one
db_update_active_conversation(active, cid) == IF active = None THEN active ELSE cid

\* src/chat.py:189-199: resume loads conversation cid and answers "Resuming
\* conversation ..."; get_conversation gives None for an unknown id and
\* Conversation.from_db_model(None) raises
Resume(cid, d) ==
  /\ pc = "idle"
  /\ events < MaxEvents
  /\ events' = events + 1
  /\ now + d <= MaxClock
  /\ now' = now + d
  /\ hist' = NoHist
  /\ IF cid \in DOMAIN dbConversations
       THEN /\ convs' = Append(convs, from_db_model(cid))
            /\ loc' = [op |-> "resume", conversation |-> Len(convs) + 1,
                       sent_message_id |-> nextId]
            /\ notice' = [kind |-> "resuming", slot |-> nextId, text |-> Literal(ResumeTextOf(dbConversations[cid].title))]
            /\ nextId' = nextId + 1
            /\ pc' = "resume_sent"
       ELSE UNCHANGED <<convs, loc, notice, nextId, pc>>
  /\ UNCHANGED <<ops, current_conversation, timeout_task, tasks, armed, conversation_timeout, title_tasks, modes, current_mode_id,
                 dbMessages, dbConversations, dbActive, gen>>

\* src/chat.py:201-209: the answer is edited to end with the last message's
\* content (a failed edit ends resume); then the conversation is installed and
\* update_active_conversation is called
ResumeEdit(ok) ==
  /\ pc = "resume_sent"
  /\ LET last == last_message(convs[loc.conversation])
     IN IF last # NoMsg /\ ~ok
          THEN /\ pc' = "idle"
               /\ loc' = NoLoc
               /\ UNCHANGED <<notice, current_conversation>>
          ELSE /\ notice' = IF last = NoMsg THEN notice
                            ELSE [kind |-> "resumed", slot |-> loc.sent_message_id,
                                  prefix |-> Literal(ResumeTextOf(convs[loc.conversation].title)),
                                  content |-> last.content]
               /\ current_conversation' = loc.conversation
               /\ pc' = "resume_set"
               /\ UNCHANGED loc
  /\ UNCHANGED <<events, ops, now, nextId, convs, timeout_task, tasks, armed, conversation_timeout, title_tasks, modes, current_mode_id,
                 dbMessages, dbConversations, dbActive, gen, hist>>

\* mutant of ResumeArm: resume leaves the timer as it is
ResumeArmKeepsTimer ==
  /\ pc = "resume_set"
  /\ dbActive' = db_update_active_conversation(dbActive, convs[loc.conversation].id)
  /\ pc' = "idle"
  /\ loc' = NoLoc
  /\ UNCHANGED <<events, ops, now, nextId, convs, current_conversation, conversation_timeout, title_tasks, modes, current_mode_id,
                 tasks, armed, timeout_task, dbMessages, dbConversations, notice, gen, hist>>

\* src/chat.py:209-212: the pointer is persisted, the timer is armed, resume
\* returns
ResumeArm ==
  /\ pc = "resume_set"
  /\ dbActive' = db_update_active_conversation(dbActive, convs[loc.conversation].id)
  /\ tasks' = add_timeout_task(tasks, timeout_task)[1]
  /\ armed' = armed_for(armed, current_conversation)
  /\ timeout_task' = add_timeout_task(tasks, timeout_task)[2]
  /\ pc' = "idle"
  /\ loc' = NoLoc
  /\ UNCHANGED <<events, ops, now, nextId, convs, current_conversation, conversation_timeout, title_tasks, modes, current_mode_id,
                 dbMessages, dbConversations, notice, gen, hist>>

\* src/chat.py:96-102: new_conversation cancels the timer, drops the handle and
\* expires the active conversation
NewConversation(d) ==
  /\ pc = "idle"
  /\ events < MaxEvents
  /\ events' = events + 1
  /\ now + d <= MaxClock
  /\ now' = now + d
  /\ hist' = NoHist
  /\ tasks' = CancelTimer(tasks, timeout_task)
  /\ timeout_task' = None
  /\ current_conversation' = None
  /\ notice' = ExpireNotice(current_conversation, None)
  /\ loc' = [op |-> "new_conversation",
             edited |-> ExpireNotice(current_conversation, None) # notice]
  /\ pc' = "nc_expired"
  /\ UNCHANGED <<armed, ops, nextId, convs, conversation_timeout, title_tasks, modes, current_mode_id, dbMessages, dbConversations,
                 dbActive, gen>>

\* src/chat.py:102-115: a failed expiry edit ends new_conversation; otherwise
\* it answers "Started a new conversation."
NewConversationNotify(ok) ==
  /\ pc = "nc_expired"
  /\ ok \/ loc.edited
  /\ IF ok
       THEN /\ notice' = [kind |-> "started", slot |-> nextId, text |-> Literal(StartedTextOf(current_mode))]
            /\ nextId' = nextId + 1
       ELSE UNCHANGED <<notice, nextId>>
  /\ pc' = "idle"
  /\ loc' = NoLoc
  /\ UNCHANGED <<events, ops, now, convs, current_conversation, timeout_task, tasks, armed,
                 conversation_timeout, title_tasks, modes, current_mode_id, dbMessages, dbConversations, dbActive, gen, hist>>

\* ------------------------------------------------------------ title task
\* what __request gives the title task: a title, nothing but white space, or
\* one of the two failures __set_title catches
TitleReplies == {"title", "empty", "RateLimited", "Other"}
\* Database.update_conversation: UPDATE ... WHERE id = :id AND title IS NULL
db_update_conversation(rows, id, title) ==
  [i \in DOMAIN rows |->
     IF rows[i].id = id /\ rows[i].title = None THEN [rows[i] EXCEPT !.title = title]
     ELSE rows[i]]

\* src/gemini.py:90-105: the first step of title task i: it returns when the
\* conversation has a title; otherwise it takes the first two messages and
\* awaits __request
TitleStart(i) ==
  /\ title_tasks[i].pc = "created"
  /\ LET c == title_tasks[i].conversation
     IN title_tasks' =
          [title_tasks EXCEPT ![i] =
             IF convs[c].title # None
               THEN [@ EXCEPT !.pc = "done", !.outcome = "skipped"]
             ELSE IF Len(convs[c].messages) = 0
               THEN [@ EXCEPT !.pc = "done", !.outcome = "no_messages"]
             ELSE [@ EXCEPT !.pc = "requesting", !.requested = TRUE,
                            !.messages_for_title =
                               SubSeq(convs[c].messages, 1, Min(2, Len(convs[c].messages)))]]
  /\ UNCHANGED <<pc, ops, events, now, nextId, convs, current_conversation, timeout_task, tasks,
                 armed, conversation_timeout, dbMessages, dbConversations, dbActive, notice,
                 loc, gen, hist, modes, current_mode_id>>

\* src/gemini.py:105-121: __request returns or raises.  A title that is not
\* empty is assigned to conversation.title and db.update_conversation is
\* awaited; an empty one and the two failures end the task.  The title of
\* task i is the text TitleText(i).
TitleReply(i, r) ==
  /\ title_tasks[i].pc = "requesting"
  /\ LET c == title_tasks[i].conversation
     IN IF r = "title"
          THEN /\ convs' = [convs EXCEPT ![c].title = i]
               /\ title_tasks' = [title_tasks EXCEPT ![i] =
                                    [@ EXCEPT !.pc = "updating", !.title = i,
                                              !.assigned_len = Len(convs[c].messages)]]
          ELSE /\ title_tasks' = [title_tasks EXCEPT ![i] =
                                    [@ EXCEPT !.pc = "done", !.outcome = r]]
               /\ UNCHANGED convs
  /\ UNCHANGED <<pc, ops, events, now, nextId, current_conversation, timeout_task, tasks,
                 armed, conversation_timeout, dbMessages, dbConversations, dbActive, notice,
                 loc, gen, hist, modes, current_mode_id>>

\* src/gemini.py:112, 119-121: db.update_conversation returns, or raises and
\* the exception is caught and logged
TitleDbUpdate(i, ok) ==
  /\ title_tasks[i].pc = "updating"
  /\ LET id == convs[title_tasks[i].conversation].id
         rows == IF ok THEN db_update_conversation(dbConversations, id, title_tasks[i].title)
                 ELSE dbConversations
     IN /\ dbConversations' = rows
        /\ title_tasks' = [title_tasks EXCEPT ![i] =
                             [@ EXCEPT !.pc = "done", !.db_called = TRUE,
                                       !.wrote = (rows # dbConversations),
                                       !.outcome = IF ok THEN "set" ELSE "db_error"]]
  /\ UNCHANGED <<pc, ops, events, now, nextId, convs, current_conversation, timeout_task, tasks,
                 armed, conversation_timeout, dbMessages, dbActive, notice,
                 loc, gen, hist, modes, current_mode_id>>

\* -------------------------------------------------------------- mode handlers
\* src/chat.py:281-300: add_or_edit_mode(prompt) with a title entered before
\* (update_mode_title) and no mode being edited: the mode is added and becomes
\* the current one when there is none
AddMode(prompt) ==
  /\ pc = "idle"
  /\ events < MaxEvents
  /\ events' = events + 1
  /\ modes' = Append(modes, ConversationMode(ModeTitle, prompt))
  /\ current_mode_id' = IF current_mode = None THEN Len(modes) + 1 ELSE current_mode_id
  /\ notice' = [kind |-> "mode_added", slot |-> nextId, text |-> Literal("Mode added.")]
  /\ nextId' = nextId + 1
  /\ hist' = NoHist
  /\ UNCHANGED <<pc, ops, now, convs, current_conversation, timeout_task, tasks, armed,
                 conversation_timeout, dbMessages, dbConversations, dbActive, loc, gen,
                 title_tasks>>

\* src/chat.py:259-274: select_mode(mode_id, sent_message_id): no id clears the
\* current mode, an unknown id is reported, a known one becomes current
SelectMode(mode_id, sent_message_id) ==
  /\ pc = "idle"
  /\ events < MaxEvents
  /\ events' = events + 1
  /\ hist' = NoHist
  /\ IF mode_id = None
       THEN /\ current_mode_id' = None
            /\ notice' = [kind |-> "mode_cleared", slot |-> sent_message_id,
                          text |-> Literal("Cleared mode.")]
            /\ UNCHANGED nextId
     ELSE IF modes_get(mode_id) = None
       THEN /\ notice' = [kind |-> "mode_not_found", slot |-> nextId,
                          text |-> Literal("Failed to find that mode. Try sending a new message.")]
            /\ nextId' = nextId + 1
            /\ UNCHANGED current_mode_id
     ELSE /\ current_mode_id' = mode_id
          /\ notice' = [kind |-> "mode_changed", slot |-> sent_message_id,
                        text |-> Literal("Changed mode to \"" \o modes[mode_id].title \o "\".")]
          /\ UNCHANGED nextId
  /\ UNCHANGED <<pc, ops, now, convs, current_conversation, timeout_task, tasks, armed,
                 conversation_timeout, dbMessages, dbConversations, dbActive, loc, gen,
                 title_tasks, modes>>

\* src/chat.py:337-346: delete_mode(id, sent_message_id): an unknown id is
\* reported; a known mode is removed from the modes.  current_mode_id is not
\* written
DeleteMode(id, sent_message_id) ==
  /\ pc = "idle"
  /\ events < MaxEvents
  /\ events' = events + 1
  /\ hist' = NoHist
  /\ IF modes_get(id) = None
       THEN /\ notice' = [kind |-> "mode_invalid", slot |-> nextId,
                          text |-> Literal("Invalid mode.")]
            /\ nextId' = nextId + 1
            /\ UNCHANGED modes
       ELSE /\ modes' = [modes EXCEPT ![id].present = FALSE]
            /\ notice' = [kind |-> "mode_deleted", slot |-> sent_message_id,
                          text |-> Literal("Mode \"" \o modes[id].title \o "\" deleted.")]
            /\ UNCHANGED nextId
  /\ UNCHANGED <<pc, ops, now, convs, current_conversation, timeout_task, tasks, armed,
                 conversation_timeout, dbMessages, dbConversations, dbActive, loc, gen,
                 title_tasks, current_mode_id>>

Next ==
  \/ \E d \in ClockSteps : HandleMessage(d)
  \/ HandleMessagePersist
  \/ \E d \in ClockSteps : RetryLastMessage(d)
  \/ RetryComplete
  \/ \E d \in ClockSteps, n \in ChunkLens : StreamChunk(d, n)
  \/ DbAdd
  \/ \E ok \in BOOLEAN : Edit(ok)
  \/ StreamEnd
  \/ \E kind \in FailKinds : StreamFail(kind)
  \/ DbUpdate
  \/ \E ok \in BOOLEAN : FinalEdit(ok)
  \/ \E ok \in BOOLEAN : Banner(ok)
  \/ \E t \in DOMAIN tasks : TimerFire(t)

Spec == Init /\ [][Next]_vars

\* --------------------------------------------------------------- lifecycle
\* The handlers of the conversation lifecycle together with the completions
\* and the timer tasks, the steps of a timer task taken one by one.  The clock
\* stands still, every chunk is one character long, the backend fails by
\* timing out and the presenter updates of a completion succeed.
NextLifecycle ==
  \/ HandleMessage(0)
  \/ HandleMessagePersist
  \/ RetryLastMessage(0)
  \/ RetryComplete
  \/ StreamChunk(0, 1)
  \/ DbAdd
  \/ StreamEnd
  \/ StreamFail("Timeout")
  \/ DbUpdate
  \/ FinalEdit(TRUE)
  \/ Banner(TRUE)
  \/ \E cid \in 1..(Len(dbConversations) + 1) : Resume(cid, 0)
  \/ \E ok \in BOOLEAN : ResumeEdit(ok)
  \/ ResumeArm
  \/ NewConversation(0)
  \/ \E ok \in BOOLEAN : NewConversationNotify(ok)
  \/ \E t \in DOMAIN tasks : TimerWake(t)
  \/ \E t \in DOMAIN tasks : TimerCancelled(t)
  \/ \E t \in DOMAIN tasks : TimerFire(t)

SpecLifecycle == Init /\ [][NextLifecycle]_vars

\* asyncio.sleep returns after the timeout and the event loop runs every task
\* that is ready: a timer task that stays pending runs its expiry
FairLifecycle == SpecLifecycle /\ WF_vars(\E t \in DOMAIN tasks : TimerFire(t))

\* ------------------------------------------------------------ two chats
\* The lifecycle of one chat when the database already holds a conversation
\* that the bot had with another chat: its row of table conversations and its
\* two rows of table messages, a user message and the reply.
OtherChatText == "Secret"
OtherChatMessages ==
  <<[id |-> 101, conversation_id |-> 1, role |-> "user", content |-> Literal(UserText)],
    [id |-> 102, conversation_id |-> 1, role |-> "assistant",
     content |-> Literal(OtherChatText)]>>
InitChats ==
  /\ pc = "idle"
  /\ ops = 0
  /\ events = 0
  /\ now = 0
  /\ nextId = 1
  /\ convs = << >>
  /\ current_conversation = None
  /\ timeout_task = None
  /\ tasks = << >>
  /\ armed = << >>
  /\ conversation_timeout \in {None, 1}
  /\ dbMessages = OtherChatMessages
  /\ dbConversations = <<[id |-> 1, chat_id |-> OtherChatId, title |-> None]>>
  /\ dbActive = None
  /\ notice = NoNotice
  /\ loc = NoLoc
  /\ gen = NoGen
  /\ hist = NoHist
  /\ title_tasks = << >>
  /\ modes = << >>
  /\ current_mode_id = None

SpecChats == InitChats /\ [][NextLifecycle]_vars

\* ------------------------------------------------------- database failures
\* The lifecycle with a database that may raise in handle_message.
NextPersistFault ==
  \/ NextLifecycle
  \/ \E call \in PersistCalls : HandleMessagePersistFails(call)

SpecPersistFault == Init /\ [][NextPersistFault]_vars

\* -------------------------------------------------------------- title tasks
\* The completions and retries of a chat together with the title tasks that
\* GPTClient.complete creates, the steps of a title task taken one by one and
\* interleaved with the handlers at their awaits.  Clock, chunk lengths,
\* backend failures and presenter updates as in NextLifecycle.
NextTitle ==
  \/ HandleMessage(0)
  \/ HandleMessagePersist
  \/ RetryLastMessage(0)
  \/ RetryComplete
  \/ StreamChunk(0, 1)
  \/ DbAdd
  \/ StreamEnd
  \/ StreamFail("Timeout")
  \/ DbUpdate
  \/ FinalEdit(TRUE)
  \/ Banner(TRUE)
  \/ \E i \in DOMAIN title_tasks : TitleStart(i)
  \/ \E i \in DOMAIN title_tasks, r \in TitleReplies : TitleReply(i, r)
  \/ \E i \in DOMAIN title_tasks, ok \in BOOLEAN : TitleDbUpdate(i, ok)

SpecTitle == Init /\ [][NextTitle]_vars

\* the database and the presenter answer the calls of __complete; nothing is
\* assumed about the title tasks
FairTitle ==
  SpecTitle /\ WF_vars(DbUpdate) /\ WF_vars(FinalEdit(TRUE))

\* -------------------------------------------------------------------- modes
\* The completions and retries of a chat together with the mode handlers.
\* A callback names a mode that exists, one that was deleted or never
\* existed, and the message its button is on.
NextModes ==
  \/ HandleMessage(0)
  \/ HandleMessagePersist
  \/ RetryLastMessage(0)
  \/ RetryComplete
  \/ StreamChunk(0, 1)
  \/ DbAdd
  \/ StreamEnd
  \/ StreamFail("Timeout")
  \/ DbUpdate
  \/ FinalEdit(TRUE)
  \/ Banner(TRUE)
  \/ \E prompt \in ModePrompts : AddMode(prompt)
  \/ \E id \in 0..(Len(modes) + 1) : SelectMode(id, nextId - 1)
  \/ \E id \in 1..(Len(modes) + 1) : DeleteMode(id, nextId - 1)

SpecModes == Init /\ [][NextModes]_vars

\* ------------------------------------------------------------- Database
\* The tables as Database keeps them, the updated_at column of conversations
\* included: a conversation row is [id, title, updated_at].  datetime.now()
\* is the clock `now`.
DbMessageIds == 1..3
DbContents == {Literal("a"), Literal("b")}
\* UPDATE conversations SET updated_at = :t WHERE id = :cid
db_touch_conversation(rows, cid, t) ==
  [i \in DOMAIN rows |-> IF rows[i].id = cid THEN [rows[i] EXCEPT !.updated_at = t] ELSE rows[i]]
\* session.get(DBMessage, message_id): the position of the row, None without
db_get_message(rows, message_id) ==
  IF \E k \in DOMAIN rows : rows[k].id = message_id
    THEN CHOOSE k \in DOMAIN rows : rows[k].id = message_id
    ELSE None
\* mutant of update_message: the conversations are stamped before the row is
\* looked up
update_message_stamps_first(messages, conversations, message_id, new_content, t) ==
  LET k == db_get_message(messages, message_id)
  IN IF k = None
       THEN [result |-> None, messages |-> messages,
             conversations |-> [i \in DOMAIN conversations |->
                                  [conversations[i] EXCEPT !.updated_at = t]]]
       ELSE [result |-> message_id,
             messages |-> db_update_message(messages, message_id, new_content),
             conversations |->
               db_touch_conversation(conversations, messages[k].conversation_id, t)]
\* src/db.py:208-247  Database.update_message: the result (the id of the row it
\* returns, or None) and the two tables after the call
update_message(messages, conversations, message_id, new_content, t) ==
  LET k == db_get_message(messages, message_id)
  IN IF k = None
       THEN [result |-> None, messages |-> messages, conversations |-> conversations]
       ELSE [result |-> message_id,
             messages |-> db_update_message(messages, message_id, new_content),
             conversations |->
               db_touch_conversation(conversations, messages[k].conversation_id, t)]

\* two conversations are stored and no message
InitDb ==
  /\ pc = "db"
  /\ ops = 0
  /\ events = 0
  /\ now = 0
  /\ nextId = 1
  /\ convs = << >>
  /\ current_conversation = None
  /\ timeout_task = None
  /\ tasks = << >>
  /\ armed = << >>
  /\ conversation_timeout = None
  /\ dbMessages = << >>
  /\ dbConversations = <<[id |-> 1, title |-> None, updated_at |-> 0],
                         [id |-> 2, title |-> None, updated_at |-> 0]>>
  /\ dbActive = None
  /\ notice = NoNotice
  /\ loc = NoLoc
  /\ gen = NoGen
  /\ hist = NoHist
  /\ title_tasks = << >>
  /\ modes = << >>
  /\ current_mode_id = None

\* src/db.py:155-206  a call of Database.add_message for a new message id and
\* a stored conversation, one clock unit after the call before
AddMessageCall(message_id, conversation_id, role, content) ==
  /\ pc = "db"
  /\ events < MaxEvents
  /\ now < MaxClock
  /\ db_get_message(dbMessages, message_id) = None
  /\ conversation_id \in DOMAIN dbConversations
  /\ events' = events + 1
  /\ now' = now + 1
  /\ dbMessages' = db_add_message(dbMessages, message_id, conversation_id, role, content)
  /\ dbConversations' = db_touch_conversation(dbConversations, conversation_id, now')
  /\ loc' = [op |-> "add_message", call |-> events', message_id |-> message_id,
             result |-> message_id]
  /\ UNCHANGED <<pc, ops, nextId, convs, current_conversation, timeout_task, tasks, armed,
                 conversation_timeout, title_tasks, modes, current_mode_id, dbActive, notice,
                 gen, hist>>

\* src/db.py:208-247  a call of Database.update_message
UpdateMessageCall(message_id, new_content) ==
  /\ pc = "db"
  /\ events < MaxEvents
  /\ now < MaxClock
  /\ events' = events + 1
  /\ now' = now + 1
  /\ LET r == update_message(dbMessages, dbConversations, message_id, new_content, now')
     IN /\ dbMessages' = r.messages
        /\ dbConversations' = r.conversations
        /\ loc' = [op |-> "update_message", call |-> events', message_id |-> message_id,
                   result |-> r.result]
  /\ UNCHANGED <<pc, ops, nextId, convs, current_conversation, timeout_task, tasks, armed,
                 conversation_timeout, title_tasks, modes, current_mode_id, dbActive, notice,
                 gen, hist>>

NextDb ==
  \/ \E message_id \in DbMessageIds, conversation_id \in 1..2, content \in DbContents :
       AddMessageCall(message_id, conversation_id, "user", content)
  \/ \E message_id \in DbMessageIds, new_content \in DbContents :
       UpdateMessageCall(message_id, new_content)

SpecDb == InitDb /\ [][NextDb]_vars

\* ================================================================ claims
\* a __complete invocation has ended and hist is its record
Ended == pc = "idle" /\ hist.conv # None
\* the step that ends a __complete invocation
CompleteEnds == pc \in {"stream", "final_edit", "banner"} /\ pc' = "idle"
IsIntermediate(e) == e.kind = "intermediate"
IsClosing(e) == e.kind \in {"final", "banner"}
IntermediateEdits == SelectSeq(hist.edits, IsIntermediate)
ClosingEdits == SelectSeq(hist.edits, IsClosing)
LastChunk == hist.chunks[Len(hist.chunks)]
LastEdit == hist.edits[Len(hist.edits)]
\* the rows of table messages whose id is the reply slot
IsSlotRow(r) == r.id = hist.slot
SlotRows == SelectSeq(dbMessages, IsSlotRow)
\* the placeholder row of the reply
PlaceholderRow ==
  [id |-> hist.slot, conversation_id |-> convs[hist.conv].id, role |-> "assistant",
   content |-> EmptyText]
\* the final content expected for the last snapshot cn: cn itself, or its first
\* (limit - suffix length) characters followed by the truncation suffix
ExpectedFinal(cn) ==
  IF TLen(cn) <= TELEGRAM_MAX_MESSAGE_LENGTH
    THEN cn
    ELSE [sid |-> cn.sid, n |-> TELEGRAM_MAX_MESSAGE_LENGTH - Len(truncation_suffix),
          tail |-> truncation_suffix]
\* the banner expected for a failure kind: text and retry affordance
ExpectedBanner(kind) ==
  CASE kind = "Timeout" ->
         [text |-> Literal("Generation timed out."), markup |-> "Retry"]
    [] kind = "RateLimited" ->
         [text |-> Literal(BusyText), markup |-> "none"]
    [] OTHER ->
         [text |-> Literal("Sorry, an error occurred."), markup |-> "Retry"]

\* C1 (as stated): once __complete has ended, a stream that yielded at least
\* one chunk gave exactly one add_message and exactly one update_message call;
\* a backend that failed before any chunk gave neither.
C1_AsStated ==
  Ended =>
    /\ Len(hist.chunks) >= 1 => Len(hist.adds) = 1 /\ Len(hist.updates) = 1
    /\ (Len(hist.chunks) = 0 /\ hist.failure # "none") =>
          hist.adds = << >> /\ hist.updates = << >>

\* C1 (amended): a stream that yields at least one chunk gives exactly one
\* add_message call, for the reply slot with empty content; exactly one
\* update_message call with the final content follows when the stream then
\* ends normally, and none when the backend fails after a chunk; without any
\* chunk neither call occurs.
C1_DurableWrites ==
  hist.conv # None =>
    /\ Len(hist.adds) <= 1 /\ Len(hist.updates) <= 1
    /\ (Ended /\ Len(hist.chunks) >= 1) => hist.adds = <<PlaceholderRow>>
    /\ (Ended /\ Len(hist.chunks) >= 1 /\ hist.failure = "none") =>
          hist.updates = <<[id |-> hist.slot, content |-> ExpectedFinal(LastChunk)]>>
    /\ hist.failure # "none" => hist.updates = << >>
    /\ Len(hist.chunks) = 0 => hist.adds = << >> /\ hist.updates = << >>
C1_Witness ==
  /\ Ended /\ Len(hist.chunks) >= 2 /\ hist.failure = "none"
  /\ Len(hist.adds) = 1 /\ Len(hist.updates) = 1

\* C2: when the stream of snapshots c1..cn (n >= 1) ends without failure and
\* len(cn) is within the channel limit, the single update_message call carries
\* cn exactly, whatever intermediate updates were sent, skipped or failed.
C2_PersistedIsLastSnapshot ==
  (Ended /\ hist.failure = "none" /\ Len(hist.chunks) >= 1
     /\ TLen(LastChunk) <= TELEGRAM_MAX_MESSAGE_LENGTH) =>
    /\ Len(hist.updates) = 1
    /\ hist.updates[1].content = LastChunk
    /\ Len(SlotRows) = 1 /\ SlotRows[1].content = LastChunk
C2_Witness ==
  /\ Ended /\ hist.failure = "none" /\ Len(hist.chunks) = 3
  /\ TLen(LastChunk) <= TELEGRAM_MAX_MESSAGE_LENGTH
  /\ Len(IntermediateEdits) = 1 /\ ~IntermediateEdits[1].ok
  /\ hist.updates[1].content = LastChunk

\* C3: when the final accumulated content is longer than the channel limit,
\* the persisted string and the string of the final presenter update are the
\* same string; it ends with the truncation suffix, its content part is the
\* first (limit - suffix length) characters of the accumulated content, and
\* its length is within the limit.
C3_Truncation ==
  (Ended /\ hist.failure = "none" /\ Len(hist.chunks) >= 1
     /\ TLen(LastChunk) > TELEGRAM_MAX_MESSAGE_LENGTH) =>
    /\ Len(SlotRows) = 1 /\ Len(hist.updates) = 1
    /\ LastEdit.kind = "final"
    /\ SlotRows[1].content = LastEdit.text
    /\ hist.updates[1].content = LastEdit.text
    /\ LastEdit.text.tail = truncation_suffix
    /\ LastEdit.text.sid = LastChunk.sid
    /\ LastEdit.text.n = TELEGRAM_MAX_MESSAGE_LENGTH - Len(truncation_suffix)
    /\ TLen(LastEdit.text) <= TELEGRAM_MAX_MESSAGE_LENGTH
C3_Witness ==
  /\ Ended /\ hist.failure = "none"
  /\ Len(hist.chunks) = 2 /\ TLen(LastChunk) = TELEGRAM_MAX_MESSAGE_LENGTH + 1
  /\ LastEdit.kind = "final" /\ TLen(LastEdit.text) = TELEGRAM_MAX_MESSAGE_LENGTH

\* C4: within one completion two consecutive intermediate presenter updates
\* are at least the throttle interval apart (the first one may be immediate).
C4_Throttle ==
  hist.conv # None =>
    \A i \in 1..(Len(IntermediateEdits) - 1) :
      IntermediateEdits[i + 1].at - IntermediateEdits[i].at >= ThrottleInterval
\* chunk 1 presented at once, chunk 2 coalesced, chunk 3 presented
C4_Witness ==
  /\ hist.conv # None /\ Len(hist.chunks) = 3 /\ Len(IntermediateEdits) = 2
  /\ IntermediateEdits[1].text = Concat(hist.chunks[1], GeneratingSuffix)
  /\ IntermediateEdits[2].text.n = LastChunk.n

\* C5: every invocation of __complete attempts exactly one closing presenter
\* update on the reply slot, the final text on success or the failure banner
\* on failure, for every backend behaviour (a stream that ends without a chunk
\* included).
C5_OneClosingUpdate ==
  Ended =>
    /\ Len(ClosingEdits) = 1
    /\ ClosingEdits[1].slot = hist.slot
    /\ hist.failure = "none" => ClosingEdits[1].kind = "final"
    /\ hist.failure # "none" => ClosingEdits[1].kind = "banner"

\* C6: whatever its outcome, the step that ends __complete installs the given
\* conversation as the active conversation and re-arms the idle timer, once:
\* the previous timer is cancelled and, with a timeout configured, a new one
\* sleeps.
C6_ReinstallAndRearm ==
  [][CompleteEnds =>
       /\ current_conversation' = loc.conversation
       /\ hist.rearms = 0 /\ hist'.rearms = 1
       /\ timeout_task # None => tasks'[timeout_task] # "sleeping"
       /\ IF conversation_timeout = None
            THEN timeout_task' = None
            ELSE /\ timeout_task' \in DOMAIN tasks' \ DOMAIN tasks
                 /\ tasks'[timeout_task'] = "sleeping"]_vars
\* a rate-limited completion whose banner could not be shown, ended while the
\* timer of the previous completion had fired
C6_Witness ==
  /\ Ended /\ hist.failure = "RateLimited" /\ ~LastEdit.ok
  /\ current_conversation = hist.conv /\ hist.rearms = 1
  /\ Len(tasks) = 2 /\ tasks[1] = "done" /\ tasks[2] = "sleeping" /\ timeout_task = 2

\* C7: a backend failure before the first chunk leaves persistence and the
\* transcript as they were: no add_message, no update_message, no assistant
\* message added, the last message still the triggering user message.
C7_FailureBeforeFirstChunk ==
  (hist.conv # None /\ hist.failure # "none" /\ Len(hist.chunks) = 0) =>
    /\ hist.adds = << >> /\ hist.updates = << >>
    /\ dbMessages = hist.db0
    /\ convs[hist.conv].messages = hist.start
    /\ last_message(convs[hist.conv]) = hist.trigger
    /\ hist.trigger.role = "user"
C7_Witness ==
  /\ Ended /\ hist.failure = "Other" /\ Len(hist.chunks) = 0
  /\ Len(hist.start) = 3 /\ convs[hist.conv].messages = hist.start

\* C8: the closing presenter message of a failed completion is fixed by the
\* failure kind: timed-out text with retry, busy text without retry, generic
\* apology with retry; a fixed literal in every case.
C8_BannerByKind ==
  (Ended /\ hist.failure # "none") =>
    /\ LastEdit.kind = "banner"
    /\ LastEdit.slot = hist.slot
    /\ LastEdit.text = ExpectedBanner(hist.failure).text
    /\ LastEdit.markup = ExpectedBanner(hist.failure).markup
C8_Witness ==
  /\ Ended /\ hist.failure = "RateLimited" /\ Len(hist.chunks) = 2
  /\ LastEdit.text = Literal(BusyText) /\ LastEdit.markup = "none"

\* C9: when the backend fails after at least one chunk, the placeholder row
\* stays as written (empty content), update_message is not called and the
\* closing presenter update is the banner of the failure kind.
C9_FailureAfterChunk ==
  (Ended /\ hist.failure # "none" /\ Len(hist.chunks) >= 1) =>
    /\ dbMessages = Append(hist.db0, PlaceholderRow)
    /\ hist.updates = << >>
    /\ LastEdit.kind = "banner"
    /\ LastEdit.text = ExpectedBanner(hist.failure).text
C9_Witness ==
  /\ Ended /\ hist.failure = "Timeout" /\ Len(hist.chunks) = 2
  /\ SlotRows = <<PlaceholderRow>> /\ hist.updates = << >>

\* C10: a failed intermediate presenter update does not abort the stream: the
\* chunks after it are consumed, and when the backend does not fail the final
\* content is persisted once and the final update is attempted with it.
HasFailedIntermediate == \E i \in 1..Len(hist.edits) :
  hist.edits[i].kind = "intermediate" /\ ~hist.edits[i].ok
C10_EditFailureNotFatal ==
  (hist.conv # None /\ HasFailedIntermediate /\ hist.failure = "none") =>
    /\ pc # "banner"
    /\ loc # NoLoc => loc.accumulated_content = LastChunk
    /\ Ended =>
         /\ hist.outcome = "success"
         /\ hist.updates = <<[id |-> hist.slot, content |-> ExpectedFinal(LastChunk)]>>
         /\ SlotRows = <<[PlaceholderRow EXCEPT !.content = ExpectedFinal(LastChunk)]>>
         /\ LastEdit.kind = "final"
         /\ LastEdit.text = ExpectedFinal(LastChunk)
\* the first update failed, two more chunks came, the final text is the last one
C10_Witness ==
  /\ Ended /\ hist.failure = "none" /\ Len(hist.chunks) = 3
  /\ ~hist.edits[1].ok /\ hist.edits[1].kind = "intermediate"
  /\ hist.edits[1].text = Concat(hist.chunks[1], GeneratingSuffix)
  /\ LastEdit.kind = "final" /\ LastEdit.text = hist.chunks[3]
  /\ hist.chunks[3] # hist.chunks[1]

\* the final presenter update of the ended completion failed
FinalEditFailed == Ended /\ hist.outcome = "success" /\ ~LastEdit.ok
\* the transcript of the completion's conversation holds an assistant message
\* for the reply slot with the last snapshot as content
ReplyInTranscript(messages) ==
  \E i \in 1..Len(messages) :
    /\ messages[i].id = hist.slot /\ messages[i].role = "assistant"
    /\ messages[i].content = LastChunk

\* C11: when the final presenter update fails, the content written by
\* update_message stays as written (not changed, not rolled back), no failure
\* banner is sent in its place, the assistant message stays in the transcript
\* and the step that ends __complete still installs the conversation as the
\* active one.
C11_FinalEditFailure ==
  /\ [](FinalEditFailed =>
          /\ SlotRows = <<[PlaceholderRow EXCEPT !.content = ExpectedFinal(LastChunk)]>>
          /\ hist.updates = <<[id |-> hist.slot, content |-> ExpectedFinal(LastChunk)]>>
          /\ \A i \in 1..Len(hist.edits) : hist.edits[i].kind # "banner"
          /\ LastEdit.kind = "final"
          /\ ReplyInTranscript(convs[hist.conv].messages))
  /\ [][(pc = "final_edit" /\ FinalEditFailed') =>
          /\ dbMessages' = dbMessages
          /\ convs' = convs
          /\ current_conversation' = loc.conversation]_vars
C11_Witness ==
  /\ FinalEditFailed /\ Len(hist.chunks) = 2
  /\ current_conversation = hist.conv
  /\ SlotRows[1].content = LastChunk

\* C12: after a completion whose stream yields at least one chunk and ends
\* normally, the transcript is the prior transcript plus exactly one assistant
\* message, with the reply slot id and the triggering user message's id as
\* replied-to id (the backend client being GPTClient.complete).
C12_OneAssistantMessage ==
  (Ended /\ hist.outcome = "success") =>
    LET messages == convs[hist.conv].messages
    IN /\ Len(messages) = Len(hist.start) + 1
       /\ SubSeq(messages, 1, Len(hist.start)) = hist.start
       /\ messages[Len(messages)].id = hist.slot
       /\ messages[Len(messages)].role = "assistant"
       /\ messages[Len(messages)].replied_to_id = hist.trigger.id

\* C13: every text passed to the presenter for a slot is within the channel
\* limit: the intermediate updates, the final text, the failure banners and
\* the expiry edit (last assistant content followed by the expiry notice).
C13_WithinChannelLimit ==
  /\ hist.conv # None =>
       \A i \in 1..Len(hist.edits) : TLen(hist.edits[i].text) <= TELEGRAM_MAX_MESSAGE_LENGTH
  /\ notice.kind = "expired" => TLen(notice.text) <= TELEGRAM_MAX_MESSAGE_LENGTH

\* ------------------------------------------------------ lifecycle claims
\* the timer tasks that are armed, have not run and are not cancelled
Pending == {t \in DOMAIN tasks : tasks[t] \in PendingStates}
\* the step in which timer task t runs its expiry
TimerRuns(t) == tasks[t] \in PendingStates /\ tasks'[t] = "done"
\* with a timeout configured, a conversation ending with an assistant message
\* is active and no handler runs
IdleWithReply ==
  /\ conversation_timeout # None
  /\ pc = "idle"
  /\ current_conversation # None
  /\ last_message(convs[current_conversation]).role = "assistant"
\* presenter call n is the expiry edit of conversation object c
IsExpiryEdit(n, c) ==
  /\ n.kind = "expired"
  /\ n.slot = last_message(convs[c]).id
  /\ n.text = Concat(last_message(convs[c]).content, ExpiredTextOf(convs[c].title))
  /\ n.resume = convs[c].id
\* the presenter's last call is the expiry edit of conversation object c and
\* no conversation is active
ExpiredShown(c) ==
  /\ c \in DOMAIN convs
  /\ current_conversation = None
  /\ IsExpiryEdit(notice, c)

\* C14: with an idle timeout configured, when a conversation ending with an
\* assistant message is active and no further operation arrives (no handler
\* starts), eventually the timer fires and no conversation is active any more;
\* the step in which it fires edits the last message's slot to its content
\* followed by the expiry notice, with the resume affordance for the
\* conversation id.
C14_IdleExpiry ==
  /\ IdleWithReply ~> (current_conversation = None \/ pc # "idle")
  /\ [][(IdleWithReply /\ current_conversation' = None /\ pc' = "idle") =>
          /\ \E t \in DOMAIN tasks : TimerRuns(t) /\ notice'.task = t
          /\ IsExpiryEdit(notice', current_conversation)
          /\ convs' = convs]_vars
C14_Witness ==
  /\ Ended /\ hist.outcome = "success" /\ conversation_timeout # None
  /\ ExpiredShown(hist.conv)
  /\ notice.slot = hist.slot /\ notice.task = Len(tasks)
  /\ notice.text.n = LastChunk.n

\* C15: when the timer fires and the active conversation's last message is
\* not an assistant message, the active conversation is cleared and no
\* presenter call is made.
C15_SilentExpiry ==
  [][\A t \in DOMAIN tasks :
       (/\ TimerRuns(t)
        /\ current_conversation # None
        /\ \/ last_message(convs[current_conversation]) = NoMsg
           \/ last_message(convs[current_conversation]).role # "assistant") =>
         /\ current_conversation' = None
         /\ notice' = notice
         /\ hist' = hist]_vars
\* the timer armed at the end of a completion that failed before any chunk
\* has fired: nothing was shown
C15_Witness ==
  /\ Ended /\ hist.failure # "none" /\ Len(hist.chunks) = 0 /\ hist.rearms = 1
  /\ Len(tasks) >= 1 /\ tasks[Len(tasks)] = "done"
  /\ last_message(convs[hist.conv]).role = "user"
  /\ current_conversation = None
  /\ notice = NoNotice

\* C16: in every reachable state at most one idle timer is pending, and the
\* stored handle is empty exactly when none is pending and otherwise refers
\* to the pending one.
C16_OnePendingTimer ==
  /\ Cardinality(Pending) <= 1
  /\ timeout_task = None => Pending = {}
  /\ timeout_task # None => Pending = {timeout_task}
\* a timer fired, the next was replaced during a resume, the third is pending
C16_Witness ==
  /\ Len(tasks) = 3 /\ tasks[1] = "done" /\ tasks[2] = "cancelled"
  /\ Pending = {3} /\ timeout_task = 3
  /\ notice.kind = "resumed" /\ pc = "idle"

\* C17: arming the timer several times in succession without it firing leaves
\* exactly one live timer, the one armed last; a timer that was replaced never
\* runs its expiry.
C17_IdempotentRearm ==
  /\ [](\A t \in DOMAIN tasks : t < Len(tasks) => t \notin Pending)
  /\ [](timeout_task # None => timeout_task = Len(tasks))
  /\ [][\A t \in DOMAIN tasks :
          tasks[t] \in {"cancelled", "must_cancel", "cancelled_late"} =>
            tasks'[t] \in {"cancelled", "must_cancel", "cancelled_late"}]_vars
\* armed three times in succession, nothing fired
C17_Witness ==
  /\ Len(tasks) = 3 /\ tasks[1] = "cancelled" /\ tasks[2] = "cancelled"
  /\ tasks[3] = "sleeping" /\ timeout_task = 3

\* C18: a timer whose sleep has elapsed but which was cancelled before it ran
\* on (by a re-arm, by resume or by start_new) ends without clearing the
\* active conversation, a conversation freshly installed by resume included,
\* and without any presenter call.
C18_CancelledTimerIsInert ==
  [][\A t \in DOMAIN tasks :
       tasks[t] = "must_cancel" =>
         /\ tasks'[t] \in {"must_cancel", "cancelled_late"}
         /\ tasks'[t] = "cancelled_late" =>
              /\ current_conversation' = current_conversation
              /\ timeout_task' = timeout_task
              /\ notice' = notice]_vars
\* the timer had woken while resume ran, resume's re-arm cancelled it, its
\* step has run, and the resumed conversation is still the active one
C18_Witness ==
  /\ Len(tasks) >= 2 /\ tasks[Len(tasks) - 1] = "cancelled_late"
  /\ tasks[Len(tasks)] = "sleeping"
  /\ pc = "idle" /\ notice.kind = "resumed"
  /\ current_conversation = Len(convs)

\* C19: whenever a timer's expiry runs, the conversation it expires is the
\* conversation that was active when that timer was armed.
C19_ExpiresOwnConversation ==
  [][\A t \in DOMAIN tasks :
       (TimerRuns(t) /\ current_conversation # None) =>
         convs[current_conversation].id = armed[t]]_vars

\* C20: when resume finds the conversation, then at the moment resume returns
\* the active conversation is that conversation, the persisted pointer of the
\* chat references it and, with a timeout configured, a timer is armed.
C20_ResumeInstalls ==
  [][(pc = "resume_set" /\ pc' = "idle") =>
       /\ current_conversation' = loc.conversation
       /\ dbActive' = convs[loc.conversation].id
       /\ conversation_timeout # None =>
            /\ timeout_task' # None
            /\ tasks'[timeout_task'] = "sleeping"]_vars

\* the step of resume(cid) for an id the database does not hold: the handler
\* starts and ends in one step, numbering no message
ResumeUnknownStep ==
  /\ pc = "idle"
  /\ pc' = "idle"
  /\ events' = events + 1
  /\ nextId' = nextId
  /\ convs' = convs
  /\ tasks' = tasks

\* C21: resume(conversation_id) for an id the database does not hold reports
\* "Failed to find that conversation. Try sending a new message." to the user
\* and leaves the active conversation, the timer and the persisted pointer
\* unchanged.
C21_ResumeNotFound ==
  [][ResumeUnknownStep =>
       /\ notice'.kind = "not_found"
       /\ current_conversation' = current_conversation
       /\ timeout_task' = timeout_task
       /\ dbActive' = dbActive]_vars
\* the part of C21 that the code keeps: the state is left as it was
C21_StateUnchanged ==
  [][ResumeUnknownStep =>
       /\ current_conversation' = current_conversation
       /\ timeout_task' = timeout_task
       /\ dbActive' = dbActive]_vars

\* the step on which new_conversation returns or is ended by an exception
NewConversationEnds == pc = "nc_expired" /\ pc' = "idle"

\* C22: new_conversation, invoked from any lifecycle state, cancels the
\* pending timer if any, expires the active conversation if any, sends exactly
\* one "Started a new conversation." acknowledgement, and ends with no active
\* conversation and no pending timer.
C22_StartNew ==
  [][/\ (pc = "idle" /\ pc' = "nc_expired") =>
          /\ timeout_task # None => tasks'[timeout_task] \notin PendingStates
          /\ current_conversation' = None
          /\ notice' = ExpireNotice(current_conversation, None)
     /\ NewConversationEnds =>
          /\ notice'.kind = "started"
          /\ nextId' = nextId + 1
          /\ current_conversation' = None
          /\ timeout_task' = None
          /\ Pending' = {}]_vars
\* the part of C22 that the code keeps: whatever the presenter does,
\* new_conversation ends with no active conversation and no pending timer
C22_EndsIdle ==
  [][NewConversationEnds =>
       /\ current_conversation' = None
       /\ timeout_task' = None
       /\ Pending' = {}]_vars

\* ------------------------------------------------------------ retry claims
\* retry_last_message runs its second step on the conversation whose last
\* __complete invocation streamed at least one chunk and ended normally
RetryAfterSuccess ==
  /\ pc = "retry_sent"
  /\ pc' # "retry_sent"
  /\ loc.prior.conv = loc.conversation
  /\ loc.prior.outcome = "success"
  /\ Len(loc.prior.chunks) > 0

\* C23: after a completion that succeeded, retry_last_message removes the
\* assistant reply from the in-memory transcript and invokes the completion
\* again with the preceding user message as trigger: the backend is called
\* with a transcript that ends in that user message.
C23_RetryAfterSuccess ==
  [][RetryAfterSuccess =>
       LET messages == convs'[loc.conversation].messages
       IN /\ \A i \in 1..Len(messages) : messages[i].id # loc.prior.slot
          /\ pc' = "stream"
          /\ gen'.user_message = loc.prior.trigger
          /\ hist'.start = messages
          /\ messages[Len(messages)] = loc.prior.trigger]_vars

\* the step of retry_last_message taken without an active conversation
RetryNoConversationStep ==
  /\ pc = "idle"
  /\ current_conversation = None
  /\ pc' = "idle"
  /\ nextId' = nextId + 1
\* the transcript retry_last_message is left with once a trailing assistant
\* message is removed
AfterPop(messages) ==
  IF Len(messages) > 0 /\ messages[Len(messages)].role = "assistant"
    THEN SubSeq(messages, 1, Len(messages) - 1)
    ELSE messages
\* the second step of retry_last_message, taken when that transcript does not
\* end with a user message
RetryNoMessageStep ==
  /\ pc = "retry_sent"
  /\ pc' # "retry_sent"
  /\ LET messages == AfterPop(convs[loc.conversation].messages)
     IN Len(messages) = 0 \/ messages[Len(messages)].role # "user"
\* no generator is opened and no row is written
NoCallNoWrite ==
  /\ gen' = NoGen
  /\ hist' = NoHist
  /\ pc' = "idle"
  /\ dbMessages' = dbMessages
  /\ dbConversations' = dbConversations
  /\ dbActive' = dbActive

\* C24: retry_last_message calls no backend and writes nothing to the database
\* when there is no active conversation, or when, a trailing assistant message
\* removed, the last message is not a user message; in the second case it puts
\* "No message to retry" on the reply slot.
C24_RetryNothingToDo ==
  [][/\ RetryNoConversationStep => NoCallNoWrite
     /\ RetryNoMessageStep =>
          /\ NoCallNoWrite
          /\ notice' = [kind |-> "no_message", slot |-> loc.sent_message_id,
                        text |-> Literal("No message to retry")]]_vars
\* retry_last_message has answered "No message to retry" and nothing was called
C24_Witness ==
  /\ pc = "idle"
  /\ notice.kind = "no_message"
  /\ gen = NoGen
  /\ hist = NoHist
  /\ \E c \in DOMAIN convs : Len(convs[c].messages) > 1

\* ------------------------------------------------------------ title claims
\* the title tasks of conversation object c that assigned conversation.title,
\* and those of conversation id that changed the persisted title
Assigners(c) ==
  {i \in DOMAIN title_tasks : title_tasks[i].conversation = c /\ title_tasks[i].assigned_len > 0}
Writers(id) ==
  {i \in DOMAIN title_tasks : convs[title_tasks[i].conversation].id = id /\ title_tasks[i].wrote}

\* C25: a conversation's title starts unset and is assigned at most once over
\* the conversation's life, in memory and in the database; every assignment
\* happens while the conversation has fewer than 3 messages; a title task that
\* finds the title set makes no backend request and no database write.
C25_TitleAssignedOnce ==
  /\ \A c \in DOMAIN convs :
       /\ Assigners(c) = {} => convs[c].title = None
       /\ Cardinality(Assigners(c)) <= 1
  /\ \A id \in DOMAIN dbConversations :
       /\ Writers(id) = {} => dbConversations[id].title = None
       /\ Cardinality(Writers(id)) <= 1
  /\ \A i \in DOMAIN title_tasks :
       /\ title_tasks[i].assigned_len < 3
       /\ title_tasks[i].outcome = "skipped" =>
            ~title_tasks[i].requested /\ ~title_tasks[i].db_called
\* C25, the parts taken one by one: the time of the assignment,
C25_AssignedWhileShort == \A i \in DOMAIN title_tasks : title_tasks[i].assigned_len < 3
\* the number of assignments in memory,
C25_OnceInMemory == \A c \in DOMAIN convs : Cardinality(Assigners(c)) <= 1
\* and what the code keeps: one write of the persisted title, none without a
\* task, and a task that finds a title does nothing
C25_OncePersisted ==
  /\ \A c \in DOMAIN convs : Assigners(c) = {} => convs[c].title = None
  /\ \A id \in DOMAIN dbConversations :
       /\ Writers(id) = {} => dbConversations[id].title = None
       /\ Cardinality(Writers(id)) <= 1
  /\ \A i \in DOMAIN title_tasks :
       title_tasks[i].outcome = "skipped" =>
         ~title_tasks[i].requested /\ ~title_tasks[i].db_called

\* the outcomes of a title task that are failures of the title step
TitleFailures == {"empty", "RateLimited", "Other", "db_error"}
\* title task i has failed and no other task has given its conversation a title
TitleFailedAlone(i) ==
  /\ title_tasks[i].outcome \in TitleFailures
  /\ \A j \in DOMAIN title_tasks :
       (j # i /\ title_tasks[j].conversation = title_tasks[i].conversation) =>
         title_tasks[j].assigned_len = 0

\* C26: on any failure of the title step (rate limit, another backend error,
\* an empty result, a failed database write) the conversation's title remains
\* unset, in memory and in the database, so that a later completion may try
\* again.  (That nothing is surfaced to the user is C26_NothingSurfaced.)
C26_TitleFailureSilent ==
  \A i \in DOMAIN title_tasks :
    TitleFailedAlone(i) =>
      /\ convs[title_tasks[i].conversation].title = None
      /\ dbConversations[convs[title_tasks[i].conversation].id].title = None
\* the part of C26 that the code keeps: a failure of the title request leaves
\* the title unset
C26_RequestFailure ==
  \A i \in DOMAIN title_tasks :
    (TitleFailedAlone(i) /\ title_tasks[i].outcome # "db_error") =>
      /\ convs[title_tasks[i].conversation].title = None
      /\ dbConversations[convs[title_tasks[i].conversation].id].title = None
\* and no step of a title task reaches the user
C26_NothingSurfaced == [][title_tasks' # title_tasks => notice' = notice]_vars

\* the title tasks of the conversation of the running (or last) __complete
\* invocation that have not ended
OpenTitleTasks ==
  {i \in DOMAIN title_tasks :
     title_tasks[i].conversation = hist.conv /\ title_tasks[i].pc # "done"}
\* the stream of the running __complete has ended normally after a chunk and
\* GPTClient.complete has created a title task that has not ended
AfterStreamWithTitleTask == pc = "db_update" /\ OpenTitleTasks # {}

\* C27: the title task is detached from the completion: once the stream has
\* ended and a title task has been created, __complete reaches its end (final
\* database write, final presenter update, conversation installed, timer
\* re-armed) whatever the title task does, also when it never takes a step.
C27_TitleDetached ==
  AfterStreamWithTitleTask ~>
    (Ended /\ hist.outcome = "success" /\ Len(hist.updates) = 1
       /\ Len(ClosingEdits) = 1 /\ hist.rearms = 1
       /\ current_conversation = hist.conv)
\* __complete has ended while the title task it created has not taken a step
C27_Witness ==
  /\ Ended
  /\ hist.outcome = "success"
  /\ hist.rearms = 1
  /\ \E i \in OpenTitleTasks : title_tasks[i].pc = "created"

\* -------------------------------------------------------------- mode claims
\* a handler enters __complete: GPTClient.complete is called
CompleteOpens == pc \in {"hm_sent", "retry_sent"} /\ pc' = "stream"
\* delete_mode removes the mode that is the current one
DeletesActiveMode ==
  /\ current_mode_id # None
  /\ current_mode_id \in DOMAIN modes
  /\ modes[current_mode_id].present
  /\ ~modes'[current_mode_id].present
\* the mode that was current has been deleted and no mode was selected since
ActiveModeDeleted ==
  /\ current_mode_id # None
  /\ current_mode_id \in DOMAIN modes
  /\ ~modes[current_mode_id].present

\* C28: after delete_mode(id) of the mode that is active the context has no
\* active mode (ChatContext.current_mode is None), and a completion started
\* afterwards, no mode selected or added in between, is run without a system
\* instruction: the backend gets the transcript alone.
C28_DeleteActiveMode ==
  [][/\ DeletesActiveMode => current_mode' = None
     /\ (ActiveModeDeleted /\ CompleteOpens) =>
          /\ current_mode = None
          /\ gen'.system_message = NoMsg
          /\ gen'.request = convs'[loc'.conversation].messages]_vars
\* a completion runs after the active mode was deleted
C28_Witness ==
  /\ ActiveModeDeleted
  /\ pc = "stream"
  /\ gen.system_message = NoMsg

\* C29: a completion passes a system instruction to the backend exactly when a
\* mode is active at its start, and the instruction is that mode's prompt; the
\* system message is never a message of a transcript and never a row of the
\* database.
C29_SystemInstruction ==
  [][/\ CompleteOpens =>
          LET active == /\ current_mode_id # None
                        /\ current_mode_id \in DOMAIN modes
                        /\ modes[current_mode_id].present
              transcript == convs'[loc'.conversation].messages
          IN /\ (gen'.system_message # NoMsg) <=> active
             /\ active =>
                  /\ gen'.system_message.role = "system"
                  /\ gen'.system_message.content = Literal(modes[current_mode_id].prompt)
                  /\ gen'.request = <<gen'.system_message>> \o transcript
             /\ ~active => gen'.request = transcript
     /\ \A c \in DOMAIN convs' : \A k \in DOMAIN convs'[c].messages :
          convs'[c].messages[k].role # "system"
     /\ \A k \in DOMAIN dbMessages' : dbMessages'[k].role # "system"]_vars
\* a completion has ended that was run with the prompt of the active mode, and
\* its reply is in the transcript and in the database
C29_Witness ==
  /\ Ended
  /\ hist.outcome = "success"
  /\ current_mode # None
  /\ hist.system = SystemMessage(Literal(modes[current_mode].prompt))
  /\ Len(dbMessages) > 1

\* ------------------------------------------------------ persistence claims
\* every row of `old` is a row of `new` at the same place, for the same
\* message of the same conversation
RowsKept(old, new) ==
  /\ Len(new) >= Len(old)
  /\ \A k \in DOMAIN old :
       /\ new[k].id = old[k].id
       /\ new[k].conversation_id = old[k].conversation_id
       /\ new[k].role = old[k].role
\* a step that changes the content of a persisted message is the final
\* update_message of a completion, and it writes the final text
ContentOnlyByUpdate ==
  \A k \in DOMAIN dbMessages :
    dbMessages'[k].content # dbMessages[k].content =>
      /\ pc = "db_update"
      /\ dbMessages[k].id = loc.assistant_message.id
      /\ dbMessages'[k].content = loc.final_text
\* every conversation row stays, and a title that is set stays
ConversationsKept ==
  /\ Len(dbConversations') >= Len(dbConversations)
  /\ \A id \in DOMAIN dbConversations :
       /\ dbConversations'[id].id = dbConversations[id].id
       /\ dbConversations[id].title # None =>
            dbConversations'[id].title = dbConversations[id].title
\* a step taken on a failure: the backend stream fails, the failure banner is
\* sent, or a presenter call of resume or new_conversation fails
FailureStep ==
  \/ pc = "stream" /\ pc' = "banner"
  \/ pc = "banner" /\ pc' = "idle"
  \/ pc = "resume_sent" /\ pc' = "idle"
  \/ pc = "nc_expired" /\ pc' = "idle" /\ notice' = notice

\* C30: the persisted transcript is append-only: no step of a completion, a
\* retry, an expiry, new_conversation or resume removes a persisted message or
\* conversation, a persisted content changes only by the final write of a
\* completion, and a step taken on a failure leaves every row as it is.
C30_AppendOnly ==
  [][/\ RowsKept(dbMessages, dbMessages')
     /\ ContentOnlyByUpdate
     /\ ConversationsKept
     /\ FailureStep => (dbMessages' = dbMessages /\ dbConversations' = dbConversations)]_vars
\* retry has taken the reply out of the transcript in memory and a new
\* completion runs, while the row of the reply is still persisted
C30_Witness ==
  /\ pc = "stream"
  /\ Len(convs[loc.conversation].messages)
       < Len(RowsOf(dbMessages, convs[loc.conversation].id))
  /\ \E k \in DOMAIN dbMessages : dbMessages[k].role = "assistant"

\* ------------------------------------------------- stable lifecycle states
\* the two states the lifecycle rests in while no handler runs
LifecycleIdle == current_conversation = None /\ Pending = {}
LifecycleActive == current_conversation # None /\ Pending # {}

\* C31: whenever no handler is in progress and a timeout is configured, the
\* context is Idle (no active conversation and no pending timer) or Active (an
\* active conversation and a pending timer); a pending timer without an active
\* conversation, or an active conversation without a pending timer, is never
\* reached.
C31_StableStates ==
  (pc = "idle" /\ conversation_timeout # None) => (LifecycleIdle \/ LifecycleActive)

\* C32: whenever __complete opens a backend stream, from handle_message or
\* from retry_last_message, the last message of the conversation's transcript
\* is a user message, and it is the message passed to the backend as trigger.
C32_TriggerIsLastUserMessage ==
  [][CompleteOpens =>
       LET messages == convs'[loc'.conversation].messages
       IN /\ Len(messages) > 0
          /\ messages[Len(messages)].role = "user"
          /\ gen'.user_message = messages[Len(messages)]
          /\ hist'.trigger = messages[Len(messages)]
          /\ gen'.request[Len(gen'.request)] = messages[Len(messages)]]_vars
\* a retry has opened a stream on a transcript from which the reply was popped
C32_Witness ==
  /\ pc = "stream"
  /\ gen.chunks = 0
  /\ hist.slot > hist.trigger.id + 1
  /\ last_message(convs[loc.conversation]) = gen.user_message

\* ------------------------------------------------ transcript and database
\* the ids of a sequence of messages or rows, in order
Ids(ms) == [k \in DOMAIN ms |-> ms[k].id]

\* C33: whenever no operation is in progress, the message ids of the active
\* conversation's transcript in memory are, in order, the message ids
\* persisted for that conversation.
C33_TranscriptMatchesRows ==
  (pc = "idle" /\ current_conversation # None) =>
    Ids(convs[current_conversation].messages)
      = Ids(RowsOf(dbMessages, convs[current_conversation].id))
\* C33 without the second assistant message of a successful completion: the
\* ids in memory, repetitions dropped, against the persisted ids
C33_SameIdSets ==
  (pc = "idle" /\ current_conversation # None) =>
    {convs[current_conversation].messages[k].id :
        k \in DOMAIN convs[current_conversation].messages}
      = {r.id : r \in {dbMessages[k] : k \in {j \in DOMAIN dbMessages :
                         dbMessages[j].conversation_id = convs[current_conversation].id}}}

\* ------------------------------------------------------- Database claims
\* the step is a call of update_message for an id no row has
UpdateOfUnknownId ==
  /\ pc = "db"
  /\ events' = events + 1
  /\ loc'.op = "update_message"
  /\ \A k \in DOMAIN dbMessages : dbMessages[k].id # loc'.message_id

\* C34: Database.update_message for a message id that is not persisted returns
\* None and changes no message content and no conversation's updated_at.
C34_UpdateUnknownMessage ==
  [][UpdateOfUnknownId =>
       /\ loc'.result = None
       /\ dbMessages' = dbMessages
       /\ dbConversations' = dbConversations]_vars
\* update_message has returned None while rows are stored whose conversation
\* was stamped before
C34_Witness ==
  /\ pc = "db"
  /\ loc.op = "update_message"
  /\ loc.result = None
  /\ Len(dbMessages) > 0
  /\ \E i \in DOMAIN dbConversations : dbConversations[i].updated_at \in 1..(now - 1)

\* ------------------------------------------------------ order of the calls
\* the running __complete makes a presenter call in this step
PresenterCall ==
  /\ hist.conv # None
  /\ hist'.conv # None
  /\ Len(hist'.edits) = Len(hist.edits) + 1
\* the row of the reply slot holds content t
SlotRowHolds(t) ==
  \E k \in DOMAIN dbMessages : dbMessages[k].id = hist.slot /\ dbMessages[k].content = t

\* C35: within one completion the durable write precedes the presentation it
\* backs: when a presenter update carrying reply content is sent, add_message
\* for the placeholder has completed, and when the final presenter update is
\* attempted, the final update_message has completed.
C35_WriteBeforePresentation ==
  [][PresenterCall =>
       LET e == hist'.edits[Len(hist'.edits)]
       IN /\ e.kind = "intermediate" =>
               /\ Len(hist.adds) = 1
               /\ \E k \in DOMAIN dbMessages : dbMessages[k].id = hist.slot
          /\ e.kind = "final" =>
               /\ Len(hist.adds) = 1
               /\ Len(hist.updates) = 1
               /\ hist.updates[1].content = e.text
               /\ SlotRowHolds(e.text)]_vars
\* a completion has sent an intermediate update and its final update
C35_Witness ==
  /\ Ended
  /\ hist.outcome = "success"
  /\ Len(IntermediateEdits) > 0
  /\ Len(ClosingEdits) = 1

\* the messages of the completion's conversation that carry the reply slot id
SlotMessages ==
  SelectSeq(convs[hist.conv].messages, LAMBDA m : m.id = hist.slot)

\* C36: when the final content exceeds the channel limit, the assistant
\* message kept in the transcript in memory holds the full content, while the
\* persisted content and the content of the final presenter update are the
\* truncated string.
C36_FullInMemoryTruncatedStored ==
  (Ended /\ hist.outcome = "success"
     /\ TLen(LastChunk) > TELEGRAM_MAX_MESSAGE_LENGTH) =>
    /\ Len(SlotMessages) >= 1
    /\ \A k \in DOMAIN SlotMessages : SlotMessages[k].content = LastChunk
    /\ last_message(convs[hist.conv]).content = LastChunk
    /\ Len(SlotRows) = 1
    /\ SlotRows[1].content = Concat(Take(LastChunk, max_content_len), truncation_suffix)
    /\ TLen(SlotRows[1].content) < TLen(LastChunk)
    /\ LastEdit.kind = "final"
    /\ LastEdit.text = SlotRows[1].content
\* a reply one character longer than the limit has been completed
C36_Witness ==
  /\ Ended
  /\ hist.outcome = "success"
  /\ TLen(LastChunk) = TELEGRAM_MAX_MESSAGE_LENGTH + 1
  /\ TLen(last_message(convs[hist.conv]).content) = TELEGRAM_MAX_MESSAGE_LENGTH + 1
  /\ TLen(LastEdit.text) = TELEGRAM_MAX_MESSAGE_LENGTH

\* --------------------------------------------- persisting the user message
\* the user message of the handle_message in progress
HandledUserMessage == UserMessage(loc.user_message_id, Literal(UserText))
\* the rows of the given message table that hold the handled user message
HandledRowsIn(rows) ==
  {k \in DOMAIN rows : rows[k].id = loc.user_message_id}
\* handle_message leaves its persisting step: it opens the stream, or it ends
HandleOpens == pc = "hm_sent" /\ pc' = "stream"
HandleRaises == pc = "hm_sent" /\ pc' = "idle"

\* C37: when handle_message opens the backend stream the user message has
\* been persisted in that handler: with an active conversation it is appended
\* to that conversation and its row carries that conversation's id, without
\* one exactly one conversation is created, in memory and in the database,
\* whose only message is the user message; when persisting the user message
\* raises, the handler ends with no backend call and no row of the message.
C37_PersistBeforeStream ==
  [][/\ HandleOpens =>
          LET c == loc'.conversation
              um == HandledUserMessage
          IN /\ HandledRowsIn(dbMessages) = {}
             /\ \E k \in HandledRowsIn(dbMessages') :
                  dbMessages'[k] = [id |-> um.id, conversation_id |-> convs'[c].id,
                                    role |-> "user", content |-> um.content]
             /\ gen'.user_message = um
             /\ IF current_conversation # None
                  THEN /\ c = current_conversation
                       /\ Len(convs') = Len(convs)
                       /\ convs'[c].id = convs[c].id
                       /\ convs'[c].messages = Append(convs[c].messages, um)
                       /\ dbConversations' = dbConversations
                  ELSE /\ Len(convs') = Len(convs) + 1
                       /\ c = Len(convs')
                       /\ convs'[c].messages = <<um>>
                       /\ Len(dbConversations') = Len(dbConversations) + 1
                       /\ dbConversations'[Len(dbConversations')].id = convs'[c].id
                       /\ \A k \in DOMAIN dbConversations : dbConversations[k].id # convs'[c].id
                       /\ Len(RowsOf(dbMessages', convs'[c].id)) = 1
     /\ HandleRaises =>
          /\ HandledRowsIn(dbMessages') = {}
          /\ gen' = gen
          /\ gen = NoGen
          /\ hist' = hist
          /\ ops' = ops]_vars
\* handle_message has ended on a database error with a conversation active:
\* the transcript ends with a user message that has no row, and no completion
\* is in progress
C37_Witness ==
  /\ pc = "idle"
  /\ gen = NoGen
  /\ current_conversation # None
  /\ last_message(convs[current_conversation]).role = "user"
  /\ \A k \in DOMAIN dbMessages :
       dbMessages[k].id # last_message(convs[current_conversation]).id

\* ------------------------------------------------- expiry and re-install
\* a timer armed for the conversation of database id cid has run its expiry
TimerExpired(cid) == \E t \in DOMAIN tasks : tasks[t] = "done" /\ armed[t] = cid
\* a completion is in flight on conversation object c whose timer has run its
\* expiry and cleared it: inside a completion nothing but the expiry clears
\* the active conversation
ExpiredInFlight(c) ==
  /\ loc.op = "complete"
  /\ loc.conversation = c
  /\ current_conversation = None
  /\ TimerExpired(convs[c].id)
\* the step makes the conversation of database id cid the active one
Installs(cid) ==
  /\ current_conversation' # None
  /\ convs'[current_conversation'].id = cid
  /\ current_conversation = None \/ convs[current_conversation].id # cid

\* C38: a conversation that the timer's expiry cleared while a completion was
\* in flight on it becomes the active conversation again only in a step of
\* resume.
C38_NoReinstallWithoutResume ==
  [][\A c \in DOMAIN convs :
       (ExpiredInFlight(c) /\ Installs(convs[c].id)) => pc = "resume_sent"]_vars

\* ------------------------------------------------------- chats kept apart
\* the row of table messages belongs to a conversation of another chat
OfOtherChat(r) == dbConversations[r.conversation_id].chat_id # ChatId

\* C39: the active conversation is a conversation of this chat, and the text
\* with which resume answers carries no message content of a conversation of
\* another chat.
C39_ActiveBelongsToChat ==
  /\ current_conversation # None =>
       dbConversations[convs[current_conversation].id].chat_id = ChatId
  /\ notice.kind = "resumed" =>
       \A k \in DOMAIN dbMessages :
         OfOtherChat(dbMessages[k]) => notice.content # dbMessages[k].content

\* ----------------------------------------------------- the frame of expiry
\* a step that runs __expire_current_conversation: the expiry of a timer
\* task, or the first step of new_conversation
ExpiryStep ==
  \/ \E t \in DOMAIN tasks : TimerRuns(t)
  \/ pc = "idle" /\ pc' = "nc_expired"
\* the step sends the expiry notice
SendsExpiryNotice == notice' # notice /\ notice'.kind = "expired"

\* C40: a step of expiry clears the active conversation and may show the
\* expiry notice, the last message's content followed by the notice text; it
\* writes no row of the database and leaves every transcript in memory as it
\* is, and the text it shows is the content of no row and of no message in
\* memory.
C40_ExpiryFrame ==
  [][ExpiryStep =>
       /\ current_conversation' = None
       /\ dbMessages' = dbMessages
       /\ dbConversations' = dbConversations
       /\ dbActive' = dbActive
       /\ convs' = convs
       /\ gen' = gen
       /\ SendsExpiryNotice =>
            LET c == current_conversation
            IN /\ c # None
               /\ notice'.slot = last_message(convs[c]).id
               /\ notice'.text = Concat(last_message(convs'[c]).content,
                                        ExpiredTextOf(convs[c].title))
               /\ \A k \in DOMAIN dbMessages' : dbMessages'[k].content # notice'.text
               /\ \A i \in DOMAIN convs' : \A k \in DOMAIN convs'[i].messages :
                    convs'[i].messages[k].content # notice'.text]_vars
\* a timer task has run its expiry and shown the notice on the reply of the
\* conversation it cleared
C40_Witness ==
  /\ notice.kind = "expired"
  /\ notice.task # None
  /\ tasks[notice.task] = "done"
  /\ current_conversation = None
  /\ \E i \in DOMAIN convs :
       /\ convs[i].id = notice.resume
       /\ last_message(convs[i]).id = notice.slot
       /\ notice.text = Concat(last_message(convs[i]).content, ExpiredTextOf(convs[i].title))

====
